---- MODULE Spec2Model ----
(***************************************************************************)
(* Verification model of zenith-router.                                    *)
(*                                                                         *)
(* The programs of the repository are modelled each with its own           *)
(* specification over its own group of variables:                          *)
(*   SpecMatch    - the pure matcher of src/match.js (matchPath/matchRoute)*)
(*   SpecTemplate - the generated router module of template.js             *)
(*   SpecRouter   - createRouter (router.js) with navigate.js, history.js  *)
(*   SpecRuntime  - the runtime router (runtime.ts and its bridge variant) *)
(*   SpecRank     - generateRouteManifest of types.ts (scores and order)   *)
(*   SpecResolve  - resolveRoute over a generated manifest (the regexes)   *)
(*   SpecHistory  - history.js used directly (listen, push, popstate)      *)
(*   SpecEvents   - events.js (the route-change subscribers)               *)
(*   SpecCreate   - createRouter's validation of its config                *)
(*   SpecTraverse - back, forward and go of the navigation package         *)
(*   SpecUrl      - push, replace and current with the browser's URL parser*)
(*   SpecMatchPath- matchPath on one route path and one pathname           *)
(*   SpecParse    - parseRouteSegments on route paths with empty tokens    *)
(*   SpecScore    - calculateRouteScore on long route paths                *)
(*   SpecGenerated- resolveRoute of the generated module on any manifest   *)
(*   SpecGuards   - beforeEach and afterEach of runtime.ts with navigate   *)
(*   SpecZen      - zenNavigate of history.js and its isNavigating flag    *)
(*   SpecSame     - runtime.ts navigate to the route it is already on      *)
(*   SpecPrefetch - prefetch and isPrefetched of runtime.ts                *)
(*   SpecTwoRouters - two createRouter instances sharing navigate.js       *)
(*                                                                         *)
(* Strings are sequences of one-character strings, so that splitting,      *)
(* prefix tests and slicing are computed as the code computes them.        *)
(***************************************************************************)
EXTENDS Integers, Sequences, FiniteSets, TLC

VARIABLES
    m_routes,      \* matcher: the ordered route array handed to matchRoute
    m_pathname,    \* matcher: the pathname handed to matchRoute
    m_result,      \* matcher: value returned by matchRoute (resolveRoute in SpecGenerated)
    m_done,        \* matcher: matchRoute has returned
    navigationToken, \* template: let navigationToken
    activeCleanup,   \* template: let activeCleanup; 0 is null, t is the function
                     \*   returned by the mount of navigation t
    t_started,       \* template: start() has run
    t_alive,         \* template: the document has not been navigated away
    t_history,       \* template: the session history [stack, pos]
    t_pending,       \* template: mountRoute calls suspended at await import(...)
    t_page,          \* template: navigation whose page module was mounted last, 0 if none
    t_log,           \* template: calls observed so far, in order
    t_events,        \* template: number of clicks, popstates and starts so far
    mountFn,         \* router: config.mount is given, per router instance
    cleanupFn,       \* router: config.cleanup is given, per router instance
    _started,        \* router: let _started, per router instance
    _hasMounted,     \* router: let _hasMounted, per router instance
    _unlisten,       \* router: _unlisten holds a function, per router instance
    _resolveNavigation, \* navigate.js: the instance whose _resolve is wired, or "null"
    _listeners,      \* history.js: the listen callbacks, in insertion order
    _listening,      \* history.js: let _listening
    v_handler,       \* window has _onPopState as a popstate listener
    v_history,       \* the session history [stack, pos]
    v_running,       \* _resolve calls suspended at await route.load(...)
    v_content,       \* what mount put into each instance's container
    v_log,           \* calls observed so far, in order
    v_ids,           \* number of _resolve calls so far
    v_ops,           \* number of API calls and popstate events so far
    v_last,          \* the last API call or popstate event
    rt_impl,         \* runtime: which implementation runs, runtime.ts or the bridge
    rt_inited,       \* runtime: initRouter has run (handlePopState is registered)
    routeManifest,   \* runtime: let routeManifest
    routerOutlet,    \* runtime: routerOutlet is an element
    currentRoute,    \* runtime: let currentRoute
    rt_html,         \* runtime: page whose markup is in the outlet, 0 if none
    rt_history,      \* runtime: the session history [stack, pos]
    rt_window,       \* runtime: window.__zenith_route
    rt_loading,      \* runtime: resolveAndRender calls suspended at await load()
    rt_micro,        \* runtime: calls suspended at await renderPage(...), oldest first
    rt_log,          \* runtime: calls observed so far, in order
    rt_ids,          \* runtime: number of initRouter, navigate and popstate so far
    g_paths,         \* generator: route paths of the discovered pages, in order
    g_pathname,      \* generator: the pathname handed to resolveRoute
    g_manifest,      \* generator: what generateRouteManifest returned
    g_resolved,      \* generator: what resolveRoute returned
    g_stage,         \* generator: "declared", "generated" or "resolved"
    h_unlistens,     \* history: callbacks for which listen has returned a function
    h_log,           \* history: calls observed so far, in order
    h_ops,           \* history: listen, unlisten and push calls and popstate events
    _subscribers,    \* events: const _subscribers, in insertion order
    e_unsubs,        \* events: callbacks for which onRouteChange has returned a function
    e_behaviour,     \* events: what each callback does when it is called
    e_log,           \* events: calls observed so far, in order
    e_ops,           \* events: subscribe, unsubscribe, clear and dispatch calls so far
    c_container,     \* createRouter: what config.container is
    c_routes,        \* createRouter: what config.routes is
    c_router,        \* createRouter: "none" before the call, then "returned" or "thrown"
    b_pending,       \* browser: traversals asked for by back, forward and go, not yet made
    u_history,       \* history.js alone: the session history, entries [pathname, search]
    u_path,          \* history.js alone: the argument of the last push or replace
    u_op,            \* history.js alone: "none", "push" or "replace", the last write
    u_threw,         \* history.js alone: the last write threw
    u_read,          \* history.js alone: current() was called after the last write
    u_current,       \* history.js alone: what that current() returned
    u_writes,        \* history.js alone: push and replace calls so far
    beforeGuards,    \* runtime: const beforeGuards, in registration order
    afterHooks,      \* runtime: const afterHooks, in registration order
    isNavigating,    \* zenNavigate: let isNavigating
    z_router,        \* zenNavigate: window.__zenith_router has a navigate function
    z_waiting,       \* zenNavigate: calls suspended at await router.navigate(...)
    z_history,       \* zenNavigate: the session history [stack, pos]
    z_log,           \* zenNavigate: calls observed so far, in order
    z_calls,         \* zenNavigate: number of zenNavigate calls so far
    prefetchedRoutes, \* prefetch: const prefetchedRoutes, a set of paths
    p_module,        \* prefetch: record.module of each route of the manifest
    p_log            \* prefetch: prefetch and navigation calls so far, in order

mvars == <<m_routes, m_pathname, m_result, m_done>>
tvars == <<navigationToken, activeCleanup, t_started, t_alive, t_history,
           t_pending, t_page, t_log, t_events>>
\* what createRouter, navigate.js and history.js hold, and the containers
vprog == <<mountFn, cleanupFn, _started, _hasMounted, _unlisten,
           _resolveNavigation, _listeners, _listening, v_handler, v_running,
           v_content>>
vvars == <<vprog, v_history, v_log, v_ids, v_ops, v_last>>
uvars == <<u_history, u_path, u_op, u_threw, u_read, u_current, u_writes>>
bvars == <<b_pending>>
qvars == <<beforeGuards, afterHooks>>
pvars == <<prefetchedRoutes, p_module, p_log>>
zvars == <<isNavigating, z_router, z_waiting, z_history, z_log, z_calls>>
cvars == <<c_container, c_routes, c_router>>
evars == <<_subscribers, e_unsubs, e_behaviour, e_log, e_ops>>
hvars == <<h_unlistens, h_log, h_ops>>
gvars == <<g_paths, g_pathname, g_manifest, g_resolved, g_stage>>
rvars == <<rt_impl, rt_inited, routeManifest, routerOutlet, currentRoute, rt_html,
           rt_history, rt_window, rt_loading, rt_micro, rt_log, rt_ids>>

(***************************************************************************)
(* Bounds                                                                  *)
(***************************************************************************)
MaxSegs == 2        \* longest route path / pathname, in segments
MaxRoutes == 2      \* longest route array given to matchRoute
MaxOps == 3         \* router: API calls and popstate events
MaxEvents == 3      \* template: clicks, popstate events and the initial load
MaxNavs == 3        \* runtime: initRouter, navigate calls and popstate events
MaxParseSegs == 3   \* parser: longest route path, in tokens, empty ones included
MaxScoreSegs == 9   \* scorer: longest route path, in segments
MaxPathLen == 3     \* history.js alone: longest string handed to push or replace
MaxWrites == 2      \* history.js alone: push and replace calls
MaxZenCalls == 3    \* zenNavigate: calls made, nested ones included
MaxPrefetchOps == 3 \* prefetch: prefetch and navigate calls made
MaxGuards == 1      \* runtime: guards, and hooks, registered at a time
MaxTraversals == 1  \* browser: traversals asked for and not yet made
MaxEvOps == 5       \* events: subscribe, unsubscribe, clear and dispatch calls
MaxHistOps == 5     \* history: listen, unlisten, push calls and popstate events
MaxRankSegs == 3    \* ranker: longest route path, in segments
MaxRankRoutes == 2  \* ranker: pages discovered
MaxPatSegs == 2     \* resolver: longest route path, in segments
MaxPatRoutes == 2   \* resolver: pages discovered

(***************************************************************************)
(* JavaScript values                                                       *)
(***************************************************************************)
Null == [null |-> TRUE]
EmptyParams == [n \in {} |-> <<>>]

LowerChars == {"a","b","c","d","e","f","g","h","i","j","k","l","m",
               "n","o","p","q","r","s","t","u","v","w","x","y","z"}
UpperChars == {"A","B","C","D","E","F","G","H","I","J","K","L","M",
               "N","O","P","Q","R","S","T","U","V","W","X","Y","Z"}
DigitChars == {"0","1","2","3","4","5","6","7","8","9"}

(***************************************************************************)
(* match.js                                                                *)
(***************************************************************************)
RECURSIVE SplitFrom(_, _, _)
SplitFrom(s, i, cur) ==
    IF i > Len(s) THEN <<cur>>
    ELSE IF s[i] = "/" THEN <<cur>> \o SplitFrom(s, i + 1, <<>>)
    ELSE SplitFrom(s, i + 1, Append(cur, s[i]))

\* String.prototype.split('/'): the pieces between slashes, empty ones included
jsSplit(s) == SplitFrom(s, 1, <<>>)

IsNonEmpty(t) == t # <<>>

\* path.split('/').filter(Boolean)
_splitPath(path) == SelectSeq(jsSplit(path), IsNonEmpty)

\* /^[A-Za-z_][A-Za-z0-9_]*$/.test(name)
_isValidParamName(name) ==
    /\ Len(name) >= 1
    /\ name[1] \in LowerChars \cup UpperChars \cup {"_"}
    /\ \A i \in 2..Len(name) :
          name[i] \in LowerChars \cup UpperChars \cup DigitChars \cup {"_"}

startsWithColon(seg) == Len(seg) >= 1 /\ seg[1] = ":"

NoMatch == [matched |-> FALSE, params |-> EmptyParams]

\* mutant: repeated parameter names are not detected
seenParamNames_never(seen, paramName) == FALSE

\* seenParamNames.has(paramName)
seenParamNames(seen, paramName) == paramName \in seen

\* the property name whose assignment on a plain object sets the prototype
ProtoName == <<"_", "_", "p", "r", "o", "t", "o", "_", "_">>

\* params[paramName] = pathSeg on `const params = {}`: assigning a string to
\* __proto__ runs the prototype setter, which ignores it and adds no key
assignParam(params, paramName, pathSeg) ==
    IF paramName = ProtoName THEN params
    ELSE (paramName :> pathSeg) @@ params

\* the for loop of matchPath, from index i with the params collected and
\* the names seen so far
RECURSIVE matchPathLoop(_, _, _, _, _)
matchPathLoop(routeSegments, pathSegments, i, params, seen) ==
    IF i > Len(routeSegments) THEN [matched |-> TRUE, params |-> params]
    ELSE LET routeSeg == routeSegments[i]
             pathSeg == pathSegments[i]
             paramName == Tail(routeSeg)
         IN  IF startsWithColon(routeSeg)
             THEN IF ~_isValidParamName(paramName) THEN NoMatch
                  ELSE IF seenParamNames(seen, paramName) THEN NoMatch
                  ELSE matchPathLoop(routeSegments, pathSegments, i + 1,
                                     assignParam(params, paramName, pathSeg),
                                     seen \cup {paramName})
             ELSE IF routeSeg # pathSeg THEN NoMatch
             ELSE matchPathLoop(routeSegments, pathSegments, i + 1, params, seen)

matchPath(routePath, pathname) ==
    LET routeSegments == _splitPath(routePath)
        pathSegments == _splitPath(pathname)
    IN  IF Len(routeSegments) # Len(pathSegments) THEN NoMatch
        ELSE matchPathLoop(routeSegments, pathSegments, 1, EmptyParams, {})

\* the for loop of matchRoute, from index i
RECURSIVE matchRouteLoop(_, _, _)
matchRouteLoop(routes, pathname, i) ==
    IF i > Len(routes) THEN Null
    ELSE LET result == matchPath(routes[i].path, pathname)
         IN  IF result.matched
             THEN [route |-> routes[i], params |-> result.params]
             ELSE matchRouteLoop(routes, pathname, i + 1)

\* mutant: the loop keeps going and the last matching route wins
RECURSIVE lastMatchLoop(_, _, _, _)
lastMatchLoop(routes, pathname, i, best) ==
    IF i > Len(routes) THEN best
    ELSE LET result == matchPath(routes[i].path, pathname)
         IN  lastMatchLoop(routes, pathname, i + 1,
                 IF result.matched
                 THEN [route |-> routes[i], params |-> result.params]
                 ELSE best)

matchRoute_lastWins(routes, pathname) == lastMatchLoop(routes, pathname, 1, Null)

matchRoute(routes, pathname) == matchRouteLoop(routes, pathname, 1)

(***************************************************************************)
(* Inputs of the matcher specification                                     *)
(***************************************************************************)
RECURSIVE JoinSegs(_)
JoinSegs(segs) ==
    IF segs = <<>> THEN <<>> ELSE <<"/">> \o Head(segs) \o JoinSegs(Tail(segs))

SeqsUpTo(S, n) == UNION {[1..k -> S] : k \in 0..n}

\* route tokens: literals, valid parameters, and a parameter with an invalid name
RouteTokens == {<<"a">>, <<":", "x">>, <<":", "y">>, <<":", "1">>}
PathTokens == {<<"a">>, <<"b">>}

RoutePaths ==
    {IF segs = <<>> THEN <<"/">> ELSE JoinSegs(segs) : segs \in SeqsUpTo(RouteTokens, MaxSegs)}

\* pathnames: the empty string, with and without a trailing slash
Pathnames ==
    {JoinSegs(segs) : segs \in SeqsUpTo(PathTokens, MaxSegs)}
    \cup {JoinSegs(segs) \o <<"/">> : segs \in SeqsUpTo(PathTokens, MaxSegs)}

\* route tokens for matchPath alone: __proto__ is a valid parameter name
MatchPathTokens == {<<"a">>, <<":", "x">>, <<":", "1">>, <<":">> \o ProtoName}

MatchPathRoutes ==
    {IF segs = <<>> THEN <<"/">> ELSE JoinSegs(segs) : segs \in SeqsUpTo(MatchPathTokens, MaxSegs)}

\* a route entry { path, load }; id stands for the identity of the object
RouteArrays ==
    {[i \in 1..Len(ps) |-> [path |-> ps[i], id |-> i]] : ps \in SeqsUpTo(RoutePaths, MaxRoutes)}

(***************************************************************************)
(* template.js: the generated router module                                *)
(*                                                                         *)
(* Page modules and the functions they return are opaque collaborators;    *)
(* a cleanup function is taken not to call back into the router.           *)
(***************************************************************************)
P_root == <<"/">>
P_a == <<"/", "a">>
P_b == <<"/", "b">>
P_x == <<"/", "x">>

\* Object.keys(__ZENITH_MANIFEST__.chunks) of the modelled application
ManifestRoutes == <<P_root, P_a, P_b>>

\* paths of the links a user can click and of the entries of the session
TplPaths == {P_root, P_a, P_b, P_x}

SeqRange(q) == {q[i] : i \in 1..Len(q)}

\* the inner for loop of resolveRoute, from segment j
RECURSIVE tplSegmentLoop(_, _, _, _)
tplSegmentLoop(routeSegments, pathnameSegments, j, params) ==
    IF j > Len(routeSegments) THEN [matched |-> TRUE, params |-> params]
    ELSE LET routeSegment == routeSegments[j]
             pathnameSegment == pathnameSegments[j]
         IN  IF startsWithColon(routeSegment)
             THEN tplSegmentLoop(routeSegments, pathnameSegments, j + 1,
                      [n \in DOMAIN params \cup {Tail(routeSegment)} |->
                          IF n = Tail(routeSegment) THEN pathnameSegment ELSE params[n]])
             ELSE IF routeSegment # pathnameSegment
             THEN [matched |-> FALSE, params |-> params]
             ELSE tplSegmentLoop(routeSegments, pathnameSegments, j + 1, params)

\* the outer for loop of resolveRoute, from route i
RECURSIVE tplRouteLoop(_, _, _)
tplRouteLoop(routes, pathnameSegments, i) ==
    IF i > Len(routes) THEN Null
    ELSE LET routeSegments == _splitPath(routes[i])
         IN  IF Len(routeSegments) # Len(pathnameSegments)
             THEN tplRouteLoop(routes, pathnameSegments, i + 1)
             ELSE LET r == tplSegmentLoop(routeSegments, pathnameSegments, 1, EmptyParams)
                  IN  IF r.matched THEN [route |-> routes[i], params |-> r.params]
                      ELSE tplRouteLoop(routes, pathnameSegments, i + 1)

tplResolveRoute(routes, pathname) ==
    IF pathname \in SeqRange(routes)
    THEN [route |-> pathname, params |-> EmptyParams]
    ELSE tplRouteLoop(routes, _splitPath(pathname), 1)

resolveRoute(pathname) == tplResolveRoute(ManifestRoutes, pathname)

\* history.pushState({}, '', path): entries after the current one are dropped
pushState(h, path) ==
    [stack |-> Append(SubSeq(h.stack, 1, h.pos), path), pos |-> h.pos + 1]

locationPathname(h) == h.stack[h.pos]

\* mutant: the previous page is not torn down
teardownRuntime_skip(ac) == [calls |-> <<>>, activeCleanup |-> ac]

\* mutant: the cleanup function is called but kept
teardownRuntime_keep(ac) == [calls |-> IF ac # 0 THEN <<ac>> ELSE <<>>, activeCleanup |-> ac]

\* teardownRuntime(): the cleanup functions called and the new activeCleanup
teardownRuntime(ac) == [calls |-> IF ac # 0 THEN <<ac>> ELSE <<>>, activeCleanup |-> 0]

\* mutant: a stale continuation is let through
tokenIsCurrent_always(token, current) == TRUE

\* the guard `if (token !== navigationToken) return` of mountRoute
tokenIsCurrent(token, current) == token = current

\* what a page load can come to:
\*   cleanup - the module's mount function returns a function
\*   plain   - the module's mount function returns something else
\*   nofn    - the module exports no mount function
\*   reject  - import() rejects
\*   throw   - the module's mount function throws
LoadKinds == {"cleanup", "plain", "nofn", "reject", "throw"}

TeardownEvents(calls, by) ==
    [i \in 1..Len(calls) |-> [e |-> "teardown", tok |-> by, of |-> calls[i]]]

\* navigate(pathname, push, url), up to the await of import() in mountRoute,
\* called with the session history h; origin names the caller
navigate(pathname, push, origin, h, log) ==
    LET next == resolveRoute(pathname)
        token == navigationToken + 1
        td == teardownRuntime(activeCleanup)
    IN  IF next = Null
        THEN /\ t_history' = h
             /\ t_log' = log
             /\ UNCHANGED <<navigationToken, activeCleanup, t_pending>>
        ELSE /\ navigationToken' = token
             /\ t_history' = IF push THEN pushState(h, pathname) ELSE h
             /\ activeCleanup' = td.activeCleanup
             /\ t_log' = log
                   \o <<[e |-> "nav", tok |-> token, route |-> next.route,
                         had |-> activeCleanup]>>
                   \o TeardownEvents(td.calls, token)
             /\ t_pending' = t_pending \cup
                   {[token |-> token, route |-> next.route,
                     params |-> next.params, origin |-> origin, url |-> pathname]}

TplCanAct == t_alive /\ t_events < MaxEvents

\* start(): the handlers are registered and the current location is navigated to
TplStart ==
    /\ ~t_started /\ TplCanAct
    /\ t_started' = TRUE
    /\ t_events' = t_events + 1
    /\ navigate(locationPathname(t_history), FALSE, "initial", t_history, t_log)
    /\ UNCHANGED <<t_alive, t_page>>

\* mutant: the click handler lets navigate push as well
clickNavigatePush_true == TRUE

\* the push argument of navigate(nextPath, false, url) in the click handler
clickNavigatePush == FALSE

\* the click handler, for a plain click on an internal link to nextPath
TplClick(nextPath) ==
    /\ t_started /\ TplCanAct
    /\ t_events' = t_events + 1
    /\ IF nextPath = locationPathname(t_history) \/ resolveRoute(nextPath) = Null
       THEN \* return before preventDefault: nothing is pushed or navigated
            /\ t_log' = Append(t_log, [e |-> "click", path |-> nextPath, prevented |-> FALSE])
            /\ UNCHANGED <<navigationToken, activeCleanup, t_history, t_pending>>
       ELSE navigate(nextPath, clickNavigatePush, "click", pushState(t_history, nextPath),
                     Append(t_log, [e |-> "click", path |-> nextPath, prevented |-> TRUE]))
    /\ UNCHANGED <<t_started, t_alive, t_page>>

\* the popstate handler, after the browser moved to entry pos of the session
TplPopState(pos) ==
    /\ t_started /\ TplCanAct
    /\ pos \in 1..Len(t_history.stack) /\ pos # t_history.pos
    /\ t_events' = t_events + 1
    /\ navigate(t_history.stack[pos], FALSE, "popstate",
                [t_history EXCEPT !.pos = pos], t_log)
    /\ UNCHANGED <<t_started, t_alive, t_page>>

\* mountRoute after `await import(...)` for the pending call p, the load
\* having come to kind
TplLoadSettles(p, kind) ==
    /\ t_alive /\ p \in t_pending
    /\ t_pending' = t_pending \ {p}
    /\ LET settled == [e |-> "settle", tok |-> p.token, kind |-> kind]
           mounts == kind \in {"cleanup", "plain", "throw"}
                     /\ tokenIsCurrent(p.token, navigationToken)
           mounted == [e |-> "mount", tok |-> p.token, route |-> p.route,
                       cur |-> navigationToken, had |-> activeCleanup,
                       fn |-> kind = "cleanup"]
           rejected == kind = "reject"
                       \/ (kind = "throw" /\ tokenIsCurrent(p.token, navigationToken))
       IN  /\ t_log' = t_log \o <<settled>> \o (IF mounts THEN <<mounted>> ELSE <<>>)
           /\ t_page' = IF mounts THEN p.token ELSE t_page
           /\ activeCleanup' =
                 IF mounts /\ kind = "cleanup" THEN p.token
                 ELSE IF mounts /\ kind = "plain" THEN 0
                 ELSE activeCleanup
           \* handleNavigationFailure: location.assign(url.href) leaves the document
           /\ t_alive' = ~(rejected /\ p.origin = "click")
    /\ UNCHANGED <<navigationToken, t_started, t_history, t_events>>

TplIdle ==
    /\ navigationToken = 0
    /\ activeCleanup = 0
    /\ t_started = FALSE
    /\ t_alive = TRUE
    /\ t_history = [stack |-> <<P_root>>, pos |-> 1]
    /\ t_pending = {}
    /\ t_page = 0
    /\ t_log = <<>>
    /\ t_events = 0

TplInit ==
    /\ navigationToken = 0
    /\ activeCleanup = 0
    /\ t_started = FALSE
    /\ t_alive = TRUE
    /\ \E p \in {P_root, P_x} : t_history = [stack |-> <<p>>, pos |-> 1]
    /\ t_pending = {}
    /\ t_page = 0
    /\ t_log = <<>>
    /\ t_events = 0

(***************************************************************************)
(* router.js (createRouter), navigate.js and history.js                    *)
(*                                                                         *)
(* mount, cleanup and the route-change subscribers are collaborators that  *)
(* return normally; a load can resolve or reject.                          *)
(***************************************************************************)
Routers == {"r1", "r2"}

P_ab == <<"/", "a", "/", "b">>
P_id == <<"/", ":", "i", "d">>

\* config.routes, the same for every instance
V0Routes == <<[path |-> P_root, id |-> 1], [path |-> P_a, id |-> 2], [path |-> P_id, id |-> 3]>>

\* paths handed to navigate(); P_ab matches no route
V0Paths == {P_a, P_b, P_ab}

current(h) == h.stack[h.pos]

\* matchRoute(routes, path) for the paths the session can hold
V0Match == [path \in V0Paths \cup {P_root} |-> matchRoute(V0Routes, path)]

\* mutant: the unmatched branch dispatches nothing
dispatchUnmatched_none(id, r, path) == <<>>

\* _dispatchRouteChange({ path, matched: false })
dispatchUnmatched(id, r, path) ==
    <<[e |-> "event", id |-> id, r |-> r, path |-> path, matched |-> FALSE,
       params |-> EmptyParams]>>

\* _resolve(path) of instance r up to its return or to the await of load;
\* st carries the log, the suspended calls and the number of calls
resolveSync(st, r, path, origin) ==
    LET result == V0Match[path]
        id == st.ids + 1
        called == [e |-> "resolve", id |-> id, r |-> r, path |-> path,
                   origin |-> origin, hadMounted |-> _hasMounted[r]]
    IN  IF result = Null
        THEN [log |-> st.log \o <<called>> \o dispatchUnmatched(id, r, path),
              running |-> st.running,
              ids |-> id]
        ELSE [log |-> st.log \o <<called>>
                      \o (IF _hasMounted[r] /\ cleanupFn[r]
                          THEN <<[e |-> "cleanup", id |-> id, r |-> r]>> ELSE <<>>)
                      \o <<[e |-> "load", id |-> id, r |-> r,
                            route |-> result.route.id, params |-> result.params]>>,
              running |-> st.running \cup
                      {[id |-> id, r |-> r, path |-> path,
                        route |-> result.route.id, params |-> result.params]},
              ids |-> id]

\* _onPopState: every listen callback in turn, each calling its _resolve
RECURSIVE _onPopState(_, _, _)
_onPopState(st, cbs, path) ==
    IF cbs = <<>> THEN st
    ELSE _onPopState(resolveSync(st, Head(cbs), path, "popstate"), Tail(cbs), path)

\* _listeners.delete(callback) for the callback of instance r
RECURSIVE deleteListener(_, _)
deleteListener(cbs, r) ==
    IF cbs = <<>> THEN <<>>
    ELSE IF cbs[Len(cbs)] = r THEN SubSeq(cbs, 1, Len(cbs) - 1)
    ELSE Append(deleteListener(SubSeq(cbs, 1, Len(cbs) - 1), r), cbs[Len(cbs)])

\* mutant: start() runs again on a started router
alreadyStarted_never(r) == FALSE

\* the guard `if (_started) return` of start()
alreadyStarted(r) == _started[r]

\* mutant: destroy() leaves the resolver wired
resolverAfterDestroy_keep(cur) == cur

\* _setNavigationResolver(null) in destroy()
resolverAfterDestroy(cur) == "null"

\* mutant: the event is dispatched before the page is mounted
settleCalls_eventFirst(mountCalls, eventCalls) == eventCalls \o mountCalls

\* the calls of _resolve after the load has resolved
settleCalls(mountCalls, eventCalls) == mountCalls \o eventCalls

VCanAct == v_ops < MaxOps

St == [log |-> v_log, running |-> v_running, ids |-> v_ids]

Did(op, r, extra) ==
    /\ v_ops' = v_ops + 1
    /\ v_last' = [op |-> op, r |-> r, prev |-> v_last.op, prevR |-> v_last.r,
                  n |-> v_ops + 1,
                  started |-> IF r \in Routers THEN _started[r] ELSE FALSE,
                  resolver |-> _resolveNavigation, extra |-> extra]

\* router.start()
Start(r) ==
    /\ VCanAct
    /\ Did("start", r, <<>>)
    /\ IF alreadyStarted(r)
       THEN UNCHANGED <<vprog, v_history, v_log, v_ids>>
       ELSE LET st == resolveSync(St, r, current(v_history), "start")
            IN  /\ _started' = [_started EXCEPT ![r] = TRUE]
                /\ _resolveNavigation' = r
                \* listen(): _ensureListening(), then _listeners.add(callback)
                /\ v_handler' = (IF _listening THEN v_handler ELSE TRUE)
                /\ _listening' = TRUE
                /\ _listeners' = Append(_listeners, r)
                /\ _unlisten' = [_unlisten EXCEPT ![r] = TRUE]
                /\ v_log' = st.log
                /\ v_running' = st.running
                /\ v_ids' = st.ids
                /\ UNCHANGED <<mountFn, cleanupFn, _hasMounted, v_content, v_history>>

\* router.destroy()
Destroy(r) ==
    /\ VCanAct
    /\ Did("destroy", r, <<>>)
    /\ IF _unlisten[r]
       THEN LET left == deleteListener(_listeners, r)
            IN  /\ _listeners' = left
                /\ v_handler' = (IF left = <<>> THEN FALSE ELSE v_handler)
                /\ _listening' = (IF left = <<>> THEN FALSE ELSE _listening)
       ELSE UNCHANGED <<_listeners, v_handler, _listening>>
    /\ _unlisten' = [_unlisten EXCEPT ![r] = FALSE]
    /\ _resolveNavigation' = resolverAfterDestroy(_resolveNavigation)
    /\ _started' = [_started EXCEPT ![r] = FALSE]
    /\ UNCHANGED <<mountFn, cleanupFn, _hasMounted, v_running, v_content,
                   v_history, v_log, v_ids>>

\* navigate(path) of navigate.js
Navigate(path) ==
    /\ VCanAct
    /\ Did("navigate", "none", path)
    /\ v_history' = pushState(v_history, path)
    /\ IF _resolveNavigation # "null"
       THEN LET st == resolveSync(St, _resolveNavigation, path, "navigate")
            IN  /\ v_log' = st.log
                /\ v_running' = st.running
                /\ v_ids' = st.ids
       ELSE UNCHANGED <<v_log, v_running, v_ids>>
    /\ UNCHANGED <<mountFn, cleanupFn, _started, _hasMounted, _unlisten,
                   _resolveNavigation, _listeners, _listening, v_handler, v_content>>

\* a popstate event: the browser has moved to entry pos of the session
PopState(pos) ==
    /\ VCanAct
    /\ pos \in 1..Len(v_history.stack) /\ pos # v_history.pos
    /\ Did("popstate", "none", pos)
    /\ v_history' = [v_history EXCEPT !.pos = pos]
    /\ LET st == IF v_handler
                 THEN _onPopState(St, _listeners, v_history.stack[pos])
                 ELSE St
       IN  /\ v_log' = st.log
           /\ v_running' = st.running
           /\ v_ids' = st.ids
    /\ UNCHANGED <<mountFn, cleanupFn, _started, _hasMounted, _unlisten,
                   _resolveNavigation, _listeners, _listening, v_handler, v_content>>

\* _resolve after `await result.route.load(result.params)` resolved
LoadResolves(p) ==
    /\ p \in v_running
    /\ v_running' = v_running \ {p}
    /\ v_log' = v_log \o settleCalls(
          IF mountFn[p.r]
          THEN <<[e |-> "mount", id |-> p.id, r |-> p.r, module |-> p.route]>>
          ELSE <<>>,
          <<[e |-> "event", id |-> p.id, r |-> p.r, path |-> p.path,
             matched |-> TRUE, params |-> p.params]>>)
    /\ _hasMounted' = [_hasMounted EXCEPT ![p.r] = @ \/ mountFn[p.r]]
    /\ v_content' = [v_content EXCEPT ![p.r] = IF mountFn[p.r] THEN p.route ELSE @]
    /\ UNCHANGED <<mountFn, cleanupFn, _started, _unlisten, _resolveNavigation,
                   _listeners, _listening, v_handler, v_history, v_ids, v_ops, v_last>>

\* _resolve after `await result.route.load(result.params)` rejected
LoadRejects(p) ==
    /\ p \in v_running
    /\ v_running' = v_running \ {p}
    /\ v_log' = Append(v_log, [e |-> "reject", id |-> p.id, r |-> p.r])
    /\ UNCHANGED <<mountFn, cleanupFn, _started, _hasMounted, _unlisten,
                   _resolveNavigation, _listeners, _listening, v_handler,
                   v_content, v_history, v_ids, v_ops, v_last>>

NoOp == [op |-> "none", r |-> "none", prev |-> "none", prevR |-> "none", n |-> 0,
         started |-> FALSE, resolver |-> "null", extra |-> <<>>]

RouterIdle ==
    /\ mountFn = [r \in Routers |-> TRUE]
    /\ cleanupFn = [r \in Routers |-> TRUE]
    /\ _started = [r \in Routers |-> FALSE]
    /\ _hasMounted = [r \in Routers |-> FALSE]
    /\ _unlisten = [r \in Routers |-> FALSE]
    /\ _resolveNavigation = "null"
    /\ _listeners = <<>>
    /\ _listening = FALSE
    /\ v_handler = FALSE
    /\ v_history = [stack |-> <<P_root>>, pos |-> 1]
    /\ v_running = {}
    /\ v_content = [r \in Routers |-> 0]
    /\ v_log = <<>>
    /\ v_ids = 0
    /\ v_ops = 0
    /\ v_last = NoOp

\* createRouter(config) has returned for the given instances; nothing is started
RouterInit0(instances) ==
    /\ mountFn \in {f \in [Routers -> BOOLEAN] : \A r \in Routers \ instances : f[r]}
    /\ cleanupFn \in {f \in [Routers -> BOOLEAN] : \A r \in Routers \ instances : f[r]}
    /\ _started = [r \in Routers |-> FALSE]
    /\ _hasMounted = [r \in Routers |-> FALSE]
    /\ _unlisten = [r \in Routers |-> FALSE]
    /\ _resolveNavigation = "null"
    /\ _listeners = <<>>
    /\ _listening = FALSE
    /\ v_handler = FALSE
    /\ v_history = [stack |-> <<P_root>>, pos |-> 1]
    /\ v_running = {}
    /\ v_content = [r \in Routers |-> 0]
    /\ v_log = <<>>
    /\ v_ids = 0
    /\ v_ops = 0
    /\ v_last = NoOp

(***************************************************************************)
(* The runtime router: runtime.ts and its native-bridge variant            *)
(***************************************************************************)
\* the two implementations of the runtime router in the repository
RtImpls == {"runtime", "bridge"}

\* String.prototype.split(sep)
RECURSIVE SplitBy(_, _, _, _)
SplitBy(s, sep, i, cur) ==
    IF i > Len(s) THEN <<cur>>
    ELSE IF s[i] = sep THEN <<cur>> \o SplitBy(s, sep, i + 1, <<>>)
    ELSE SplitBy(s, sep, i + 1, Append(cur, s[i]))

\* Array.prototype.join('/')
RECURSIVE jsJoin(_)
jsJoin(segs) ==
    IF segs = <<>> THEN <<>>
    ELSE IF Len(segs) = 1 THEN segs[1]
    ELSE segs[1] \o <<"/">> \o jsJoin(Tail(segs))

\* index of the first occurrence of c in s, 0 if there is none
RECURSIVE IndexOf(_, _, _)
IndexOf(s, c, i) ==
    IF i > Len(s) THEN 0 ELSE IF s[i] = c THEN i ELSE IndexOf(s, c, i + 1)

\* query[key] = value on an object kept as its entries in insertion order
setKey(query, key, value) ==
    IF \E i \in 1..Len(query) : query[i][1] = key
    THEN [i \in 1..Len(query) |->
             IF query[i][1] = key THEN <<key, value>> ELSE query[i]]
    ELSE Append(query, <<key, value>>)

\* new URLSearchParams(body).forEach((value, key) => { query[key] = value })
\* for text without percent escapes or '+'
RECURSIVE forEachParam(_, _)
forEachParam(pieces, query) ==
    IF pieces = <<>> THEN query
    ELSE LET piece == Head(pieces)
             eq == IndexOf(piece, "=", 1)
             key == IF eq = 0 THEN piece ELSE SubSeq(piece, 1, eq - 1)
             value == IF eq = 0 THEN <<>> ELSE SubSeq(piece, eq + 1, Len(piece))
         IN IF piece = <<>> THEN forEachParam(Tail(pieces), query)
            ELSE forEachParam(Tail(pieces), setKey(query, key, value))

parseQueryString(search) ==
    IF search = <<>> \/ search = <<"?">> THEN <<>>
    ELSE LET body == IF search[1] = "?" THEN Tail(search) ELSE search
         IN forEachParam(SplitBy(body, "&", 1, <<>>), <<>>)

\* new URLSearchParams(query).toString()
RECURSIVE searchParamsToString(_)
searchParamsToString(query) ==
    IF query = <<>> THEN <<>>
    ELSE query[1][1] \o <<"=">> \o query[1][2] \o
         (IF Len(query) = 1 THEN <<>>
          ELSE <<"&">> \o searchParamsToString(Tail(query)))

\* path + (Object.keys(query).length > 0 ? "?" + ... : "")
historyUrl(path, query) ==
    path \o (IF Len(query) > 0 THEN <<"?">> \o searchParamsToString(query)
             ELSE <<>>)

\* window.location.pathname and window.location.search of an absolute URL
urlPathname(url) ==
    LET q == IndexOf(url, "?", 1)
    IN IF q = 0 THEN url ELSE SubSeq(url, 1, q - 1)

urlSearch(url) ==
    LET q == IndexOf(url, "?", 1)
    IN IF q = 0 \/ q = Len(url) THEN <<>> ELSE SubSeq(url, q, Len(url))

\* the browser resolves the url handed to pushState / replaceState against the
\* current location
resolveUrl(h, url) ==
    IF url # <<>> /\ url[1] = "/" THEN url
    ELSE LET segs == jsSplit(urlPathname(h.stack[h.pos]))
         IN jsJoin(SubSeq(segs, 1, Len(segs) - 1)) \o <<"/">> \o url

rtPushState(h, url) == pushState(h, resolveUrl(h, url))

replaceState(h, url) == [h EXCEPT !.stack[h.pos] = resolveUrl(h, url)]

\* segment.endsWith("?")
endsWithQuestion(segment) == Len(segment) >= 1 /\ segment[Len(segment)] = "?"

startsWithStar(segment) == Len(segment) >= 1 /\ segment[1] = "*"

\* routePathToRegex: the piece of the pattern a segment contributes,
\* (?:\/(.*))? , \/(.+) , \/([^/]+) or the escaped literal after a slash
regexPart(segment) ==
    IF startsWithStar(segment) /\ endsWithQuestion(segment)
    THEN [kind |-> "optional", text |-> <<>>]
    ELSE IF startsWithStar(segment) THEN [kind |-> "catchall", text |-> <<>>]
    ELSE IF startsWithColon(segment) THEN [kind |-> "dynamic", text |-> <<>>]
    ELSE [kind |-> "static", text |-> segment]

\* routePathToRegex: /^\/$/ for the root, else ^ parts \/?$
routePathToRegex(routePath) ==
    IF routePath = P_root THEN [root |-> TRUE, parts |-> <<>>]
    ELSE LET segmentsList == jsSplit(Tail(routePath))
             kept == SelectSeq(segmentsList, IsNonEmpty)
         IN [root |-> FALSE,
             parts |-> [i \in 1..Len(kept) |-> regexPart(kept[i])]]

\* a capture group that took part in the match, and one that did not
Captured(text) == [def |-> TRUE, val |-> text]
Undefined == [def |-> FALSE, val |-> <<>>]

\* the number of characters of s from position pos on that are not '/'
RECURSIVE runLength(_, _)
runLength(s, pos) ==
    IF pos > Len(s) \/ s[pos] = "/" THEN 0 ELSE 1 + runLength(s, pos + 1)

\* the backtracking matcher of the regular expression engine: regexFrom
\* matches parts i.. at position pos; regexTry gives a greedy group starting
\* at start its longest length first, then shorter ones down to least
RECURSIVE regexFrom(_, _, _, _, _)
RECURSIVE regexTry(_, _, _, _, _, _, _)
regexTry(parts, i, s, start, len, least, caps) ==
    IF len < least THEN Null
    ELSE LET r == regexFrom(parts, i + 1, s, start + len,
                            Append(caps, Captured(SubSeq(s, start, start + len - 1))))
         IN IF r # Null THEN r
            ELSE regexTry(parts, i, s, start, len - 1, least, caps)

regexFrom(parts, i, s, pos, caps) ==
    IF i > Len(parts)
    THEN \* \/?$
         IF pos = Len(s) + 1 \/ (pos = Len(s) /\ s[pos] = "/")
         THEN [groups |-> caps] ELSE Null
    ELSE LET part == parts[i]
             slash == pos <= Len(s) /\ s[pos] = "/"
         IN IF part.kind = "static"
            THEN IF /\ slash
                    /\ pos + Len(part.text) <= Len(s)
                    /\ SubSeq(s, pos + 1, pos + Len(part.text)) = part.text
                 THEN regexFrom(parts, i + 1, s, pos + 1 + Len(part.text), caps)
                 ELSE Null
            ELSE IF part.kind = "dynamic"
            THEN IF slash
                 THEN regexTry(parts, i, s, pos + 1, runLength(s, pos + 1), 1, caps)
                 ELSE Null
            ELSE IF part.kind = "catchall"
            THEN IF slash
                 THEN regexTry(parts, i, s, pos + 1, Len(s) - pos, 1, caps)
                 ELSE Null
            ELSE \* optional: the group is tried first, then skipped
                 LET taken == IF slash
                              THEN regexTry(parts, i, s, pos + 1, Len(s) - pos, 0, caps)
                              ELSE Null
                 IN IF taken # Null THEN taken
                    ELSE regexFrom(parts, i + 1, s, pos, Append(caps, Undefined))

\* regex.exec(pathname): Null, or the capture groups match[1], match[2], ...
regexExec(regex, pathname) ==
    IF regex.root
    THEN (IF pathname = P_root THEN [groups |-> <<>>] ELSE Null)
    ELSE regexFrom(regex.parts, 1, pathname, 1, <<>>)

\* the route manifest handed to initRouter: '/' ships with its module, the
\* other pages are loaded on demand
RtManifest ==
    << [path |-> P_root, paramNames |-> <<>>, module |-> TRUE, id |-> 1],
       [path |-> P_a, paramNames |-> <<>>, module |-> FALSE, id |-> 2],
       [path |-> P_b, paramNames |-> <<>>, module |-> FALSE, id |-> 3] >>

\* params[paramName] = decodeURIComponent(paramValue) for each declared name
\* whose group is defined; the text has no percent escapes
paramsOf(paramNames, match) ==
    LET idx == {i \in 1..Len(paramNames) :
                   i <= Len(match) /\ paramNames[i] # <<>> /\ match[i].def}
    IN [name \in {paramNames[i] : i \in idx} |->
           match[CHOOSE i \in idx : paramNames[i] = name /\
                     \A j \in idx : paramNames[j] = name => j <= i].val]

RECURSIVE rtResolveLoop(_, _, _)
rtResolveLoop(manifest, normalizedPath, i) ==
    IF i > Len(manifest) THEN Null
    ELSE LET match == regexExec(routePathToRegex(manifest[i].path), normalizedPath)
         IN IF match # Null
            THEN [record |-> manifest[i],
                  params |-> paramsOf(manifest[i].paramNames, match.groups)]
            ELSE rtResolveLoop(manifest, normalizedPath, i + 1)

\* resolveRoute(pathname) of the runtime router
rtResolveRoute(manifest, pathname) ==
    rtResolveLoop(manifest, IF pathname = <<>> THEN P_root ELSE pathname, 1)

\* let currentRoute = { path: "/", params: {}, query: {} }
InitialRoute ==
    [path |-> P_root, params |-> EmptyParams, query |-> <<>>, matched |-> 0]

\* what navigate(to) is called with: two pages, a path without a route, a page
\* with a query string, and a relative path
RtTargets == {P_a, P_b, P_x, P_a \o <<"?", "k", "=", "v">>, <<"b">>}

\* what record.load() returns in runtime.ts, where it is not awaited
LoadReturns == {"module", "promise"}

\* the state resolveAndRender reads and writes
RtSt == [cur |-> currentRoute, html |-> rt_html, hist |-> rt_history,
         log |-> rt_log, win |-> rt_window]

RtSet(st, loading, micro) ==
    /\ currentRoute' = st.cur
    /\ rt_html' = st.html
    /\ rt_history' = st.hist
    /\ rt_log' = st.log
    /\ rt_window' = st.win
    /\ rt_loading' = loading
    /\ rt_micro' = micro

\* outlet.innerHTML after rendering a promise instead of a page module
HtmlUndefined == 0 - 1

\* renderPage(pageModule): html is the page whose markup goes into the outlet,
\* HtmlUndefined when pageModule is a promise; in runtime.ts injectStyles then
\* throws on the promise's missing styles
renderPage(impl, outlet, st, id, html) ==
    IF ~outlet THEN [st |-> st, threw |-> FALSE]
    ELSE [st |-> [st EXCEPT !.html = html,
                            !.log = Append(@, [op |-> "render", id |-> id,
                                               html |-> html])],
          threw |-> impl = "runtime" /\ html = HtmlUndefined]

\* resolveAndRender: if (updateHistory) { replaceState / pushState }
historyWrite(st, k) ==
    IF k.updateHistory
    THEN LET url == historyUrl(k.path, k.query)
         IN [st EXCEPT
                !.hist = IF k.replace THEN replaceState(@, url)
                         ELSE rtPushState(@, url),
                !.log = Append(@, [op |-> "history", id |-> k.id,
                                   url |-> url, replace |-> k.replace])]
    ELSE st

\* resolveAndRender from the history update on: notifyListeners(currentRoute,
\* prevRoute) and window.__zenith_route = currentRoute
finishNavigation(st, k) ==
    LET w == historyWrite(st, k)
    IN [w EXCEPT !.log = Append(@, [op |-> "notify", id |-> k.id,
                                    route |-> w.cur, prev |-> k.prevRoute]),
                 !.win = w.cur]

\* resolveAndRender(path, query, updateHistory, replace) up to its first
\* suspension; h is the session history the call finds, ret what load() returns
ResolveAndRender(impl, manifest, outlet, path, query, updateHistory, replace, origin, h, ret) ==
    LET id == rt_ids + 1
        resolved == rtResolveRoute(manifest, path)
        k == [id |-> id, path |-> path, query |-> query,
              updateHistory |-> updateHistory, replace |-> replace,
              prevRoute |-> currentRoute,
              route |-> IF resolved = Null THEN 0 ELSE resolved.record.id]
        called == [RtSt EXCEPT
                     !.hist = h,
                     !.log = Append(@, [op |-> "nav", id |-> id,
                                        origin |-> origin, path |-> path])]
    IN
    /\ rt_ids' = id
    /\ IF resolved = Null
       THEN RtSet(finishNavigation(
                     [called EXCEPT !.cur = [path |-> path, params |-> EmptyParams,
                                             query |-> query, matched |-> 0]], k),
                  rt_loading, rt_micro)
       ELSE LET st == [called EXCEPT
                          !.cur = [path |-> path, params |-> resolved.params,
                                   query |-> query,
                                   matched |-> resolved.record.id]]
                loaded == [st EXCEPT !.log = Append(@, [op |-> "load", id |-> id,
                                                        route |-> k.route])]
            IN IF resolved.record.module
               THEN \* the record carries its module: await renderPage(...)
                    RtSet(renderPage(impl, outlet, st, id, k.route).st,
                          rt_loading, Append(rt_micro, k))
               ELSE IF impl = "bridge"
               THEN \* await resolved.record.load()
                    RtSet(loaded, rt_loading \cup {k}, rt_micro)
               ELSE \* runtime.ts: renderPage(record.load())
                    LET r == renderPage(impl, outlet, loaded, id,
                                        IF ret = "promise" THEN HtmlUndefined
                                        ELSE k.route)
                    IN IF r.threw
                       THEN RtSet([r.st EXCEPT !.log = Append(@, [op |-> "reject",
                                                                  id |-> id])],
                                  rt_loading, rt_micro)
                       ELSE RtSet(r.st, rt_loading, Append(rt_micro, k))

\* navigate(to, options) of runtime.ts: a relative path is resolved against
\* the directory of the current path
normalizePath(path, cur) ==
    IF path # <<>> /\ path[1] = "/" THEN path
    ELSE LET segs == jsSplit(cur.path)
         IN jsJoin(SubSeq(segs, 1, Len(segs) - 1)) \o <<"/">> \o path

\* navigate(to, options): the path and query of to
parseTo(to) ==
    IF "?" \in SeqRange(to)
    THEN LET pieces == SplitBy(to, "?", 1, <<>>)
         IN [path |-> IF pieces[1] = <<>> THEN P_root ELSE pieces[1],
             query |-> parseQueryString(<<"?">> \o pieces[2])]
    ELSE [path |-> to, query |-> <<>>]

\* navigate of runtime.ts: same path and same query
isSameRoute(path, query, cur) ==
    /\ (IF path = <<>> THEN P_root ELSE path) =
       (IF cur.path = <<>> THEN P_root ELSE cur.path)
    /\ query = cur.query

RtCanAct == rt_inited /\ rt_ids < MaxNavs

\* initRouter(manifest, outlet)
RtInitRouter(outlet, ret) ==
    /\ ~rt_inited
    /\ rt_inited' = TRUE
    /\ routeManifest' = RtManifest
    /\ routerOutlet' = outlet
    /\ LET url == rt_history.stack[rt_history.pos]
       IN ResolveAndRender(rt_impl, RtManifest, outlet, urlPathname(url),
                           parseQueryString(urlSearch(url)), FALSE, FALSE,
                           "init", rt_history, ret)
    /\ UNCHANGED rt_impl

\* navigate(to, { replace })
RtNavigate(to, replace, ret) ==
    /\ RtCanAct
    /\ LET parsed == parseTo(to)
           path == IF rt_impl = "runtime"
                   THEN normalizePath(parsed.path, currentRoute)
                   ELSE parsed.path
       IN IF rt_impl = "runtime" /\ isSameRoute(path, parsed.query, currentRoute)
          THEN /\ rt_ids' = rt_ids + 1
               /\ rt_log' = Append(rt_log, [op |-> "same", id |-> rt_ids + 1])
               /\ UNCHANGED <<currentRoute, rt_html, rt_history, rt_window,
                              rt_loading, rt_micro>>
          ELSE ResolveAndRender(rt_impl, routeManifest, routerOutlet, path,
                                parsed.query, TRUE, replace, "navigate",
                                rt_history, ret)
    /\ UNCHANGED <<rt_impl, rt_inited, routeManifest, routerOutlet>>

\* mutant: handlePopState asks resolveAndRender to update the history
popstateUpdatesHistory_true == TRUE

\* handlePopState: resolveAndRender(path, query, false, false)
popstateUpdatesHistory == FALSE

\* the user goes back or forward to entry pos: handlePopState
RtPopState(pos, ret) ==
    /\ RtCanAct
    /\ rt_micro = <<>>
    /\ pos # rt_history.pos
    /\ LET h == [rt_history EXCEPT !.pos = pos]
           url == h.stack[pos]
       IN ResolveAndRender(rt_impl, routeManifest, routerOutlet,
                           urlPathname(url), parseQueryString(urlSearch(url)),
                           popstateUpdatesHistory, FALSE, "popstate", h, ret)
    /\ UNCHANGED <<rt_impl, rt_inited, routeManifest, routerOutlet>>

\* bridge: the promise of record.load() is fulfilled; renderPage, then the
\* rest of resolveAndRender after await renderPage(...)
RtLoadResolves(k) ==
    /\ k \in rt_loading
    /\ RtSet(renderPage(rt_impl, routerOutlet, RtSt, k.id, k.route).st,
             rt_loading \ {k}, Append(rt_micro, k))
    /\ UNCHANGED <<rt_impl, rt_inited, routeManifest, routerOutlet, rt_ids>>

\* bridge: the promise of record.load() is rejected; resolveAndRender rejects
RtLoadRejects(k) ==
    /\ k \in rt_loading
    /\ rt_loading' = rt_loading \ {k}
    /\ rt_log' = Append(rt_log, [op |-> "reject", id |-> k.id])
    /\ UNCHANGED <<rt_impl, rt_inited, routeManifest, routerOutlet, rt_ids,
                   currentRoute, rt_html, rt_history, rt_window, rt_micro>>

\* the continuation of the oldest await renderPage(...) runs
RtMicrotask ==
    /\ rt_micro # <<>>
    /\ RtSet(finishNavigation(RtSt, Head(rt_micro)), rt_loading, Tail(rt_micro))
    /\ UNCHANGED <<rt_impl, rt_inited, routeManifest, routerOutlet, rt_ids>>

RuntimeIdle ==
    /\ rt_impl = "runtime"
    /\ rt_inited = FALSE
    /\ routeManifest = <<>>
    /\ routerOutlet = FALSE
    /\ currentRoute = InitialRoute
    /\ rt_html = 0
    /\ rt_history = [stack |-> <<P_root>>, pos |-> 1]
    /\ rt_window = Null
    /\ rt_loading = {}
    /\ rt_micro = <<>>
    /\ rt_log = <<>>
    /\ rt_ids = 0

\* the module has been evaluated; initRouter has not been called
RtInit ==
    /\ rt_impl \in RtImpls
    /\ rt_inited = FALSE
    /\ routeManifest = <<>>
    /\ routerOutlet = FALSE
    /\ currentRoute = InitialRoute
    /\ rt_html = 0
    /\ rt_history = [stack |-> <<P_root>>, pos |-> 1]
    /\ rt_window = Null
    /\ rt_loading = {}
    /\ rt_micro = <<>>
    /\ rt_log = <<>>
    /\ rt_ids = 0

(***************************************************************************)
(* runtime.ts: beforeEach and afterEach                                    *)
(*                                                                         *)
(* A guard is a function that returns true or false, a hook one that       *)
(* returns or throws.                                                      *)
(***************************************************************************)
GuardFns == {"allows", "denies"}
HookFns == {"returns", "throws"}

\* const index = fns.indexOf(fn); if (index > -1) fns.splice(index, 1)
RECURSIVE spliceFirst(_, _)
spliceFirst(fns, fn) ==
    IF fns = <<>> THEN <<>>
    ELSE IF Head(fns) = fn THEN Tail(fns)
    ELSE <<Head(fns)>> \o spliceFirst(Tail(fns), fn)

\* beforeEach(guard)
BeforeEach(guard) ==
    /\ Len(beforeGuards) < MaxGuards
    /\ beforeGuards' = Append(beforeGuards, guard)
    /\ UNCHANGED afterHooks

\* the function returned by beforeEach(guard)
RemoveGuard(guard) ==
    /\ beforeGuards' = spliceFirst(beforeGuards, guard)
    /\ UNCHANGED afterHooks

\* afterEach(hook)
AfterEach(hook) ==
    /\ Len(afterHooks) < MaxGuards
    /\ afterHooks' = Append(afterHooks, hook)
    /\ UNCHANGED beforeGuards

\* the function returned by afterEach(hook)
RemoveHook(hook) ==
    /\ afterHooks' = spliceFirst(afterHooks, hook)
    /\ UNCHANGED beforeGuards

GuardsIdle ==
    /\ beforeGuards = <<>>
    /\ afterHooks = <<>>

(***************************************************************************)
(* types.ts: the route manifest generator                                  *)
(***************************************************************************)
\* parseRouteSegments: one segment of routePath.slice(1).split("/")
parseSegment(segment) ==
    IF startsWithStar(segment) /\ endsWithQuestion(segment)
    THEN [segmentType |-> "OptionalCatchAll", named |-> TRUE,
          paramName |-> SubSeq(segment, 2, Len(segment) - 1), raw |-> segment]
    ELSE IF startsWithStar(segment)
    THEN [segmentType |-> "CatchAll", named |-> TRUE,
          paramName |-> Tail(segment), raw |-> segment]
    ELSE IF startsWithColon(segment)
    THEN [segmentType |-> "Dynamic", named |-> TRUE,
          paramName |-> Tail(segment), raw |-> segment]
    ELSE [segmentType |-> "Static", named |-> FALSE,
          paramName |-> <<>>, raw |-> segment]

parseRouteSegments(routePath) ==
    IF routePath = P_root THEN <<>>
    ELSE LET segmentsList == jsSplit(Tail(routePath))
         IN [i \in 1..Len(segmentsList) |-> parseSegment(segmentsList[i])]

SEGMENT_SCORES(segmentType) ==
    IF segmentType = "Static" THEN 10
    ELSE IF segmentType = "Dynamic" THEN 5
    ELSE IF segmentType = "CatchAll" THEN 1
    ELSE 0

RECURSIVE sumScores(_)
sumScores(segments) ==
    IF segments = <<>> THEN 0
    ELSE SEGMENT_SCORES(Head(segments).segmentType) + sumScores(Tail(segments))

IsStatic(segment) == segment.segmentType = "Static"

calculateRouteScore(segments) ==
    IF Len(segments) = 0 THEN 100
    ELSE sumScores(segments) + Len(SelectSeq(segments, IsStatic)) * 2

IsNamed(segment) == segment.named

extractParamNames(segments) ==
    LET named == SelectSeq(segments, IsNamed)
    IN [i \in 1..Len(named) |-> named[i].paramName]

\* generateRouteDefinition for the route path of the page found at position
\* index; regex is routePathToRegex(path)
generateRouteDefinition(routePath, index) ==
    LET segments == parseRouteSegments(routePath)
    IN [path |-> routePath, paramNames |-> extractParamNames(segments),
        score |-> calculateRouteScore(segments), index |-> index]

\* mutant: a definition goes in front of the definitions of equal score
insertRanked_beforeTies(sorted, def) ==
    LET before == SelectSeq(sorted, LAMBDA e : e.score > def.score)
    IN before \o <<def>> \o SubSeq(sorted, Len(before) + 1, Len(sorted))

\* Array.prototype.sort((a, b) => b.score - a.score), which is stable: a
\* definition goes behind every definition whose score is not smaller
insertRanked(sorted, def) ==
    LET before == SelectSeq(sorted, LAMBDA e : e.score >= def.score)
    IN before \o <<def>> \o SubSeq(sorted, Len(before) + 1, Len(sorted))

RECURSIVE sortByScore(_, _)
sortByScore(definitions, sorted) ==
    IF definitions = <<>> THEN sorted
    ELSE sortByScore(Tail(definitions), insertRanked(sorted, Head(definitions)))

\* generateRouteManifest for the route paths of the discovered pages, in
\* discovery order
generateRouteManifest(routePaths) ==
    sortByScore([i \in 1..Len(routePaths) |->
                    generateRouteDefinition(routePaths[i], i)], <<>>)

\* the segments a page path can have: a literal, a parameter, a catch-all and
\* an optional catch-all
SegmentTokens == {<<"a">>, <<":", "x">>, <<"*", "r">>, <<"*", "r", "?">>}

PathsOfTokens(tokens, n) ==
    {IF segs = <<>> THEN P_root ELSE JoinSegs(segs) : segs \in SeqsUpTo(tokens, n)}

\* route paths given to the ranker, and the page lists it is given
RankPaths == PathsOfTokens(SegmentTokens, MaxRankSegs)
RankInputs == SeqsUpTo(RankPaths, MaxRankRoutes)

\* route paths given to the resolver: a catch-all can only be the last segment
CatchAllLast(routePath) ==
    LET segments == parseRouteSegments(routePath)
    IN \A i \in 1..(Len(segments) - 1) :
          segments[i].segmentType \in {"Static", "Dynamic"}

ResolvePaths == {p \in PathsOfTokens(SegmentTokens, MaxPatSegs) : CatchAllLast(p)}
ResolveInputs == SeqsUpTo(ResolvePaths, MaxPatRoutes)

\* the pathnames resolved: up to one token more than the longest route, with
\* and without a trailing slash
ResolvePathnames ==
    LET bodies == {JoinSegs(segs) : segs \in SeqsUpTo(PathTokens, MaxPatSegs + 1)}
    IN (bodies \ {<<>>}) \cup {b \o <<"/">> : b \in bodies}

\* generateRouteManifest(pagesDir)
GenerateRouteManifest ==
    /\ g_stage = "declared"
    /\ g_manifest' = generateRouteManifest(g_paths)
    /\ g_stage' = "generated"
    /\ UNCHANGED <<g_paths, g_pathname, g_resolved>>

\* resolveRoute(pathname) on the generated manifest
ResolveRoute ==
    /\ g_stage = "generated"
    /\ g_resolved' = rtResolveRoute(g_manifest, g_pathname)
    /\ g_stage' = "resolved"
    /\ UNCHANGED <<g_paths, g_pathname, g_manifest>>

\* route paths handed to parseRouteSegments: an empty token stands for a
\* doubled or trailing slash
ParseTokens == SegmentTokens \cup {<<>>}
ParsePaths == PathsOfTokens(ParseTokens, MaxParseSegs)

\* route paths handed to calculateRouteScore: literals and parameters
ScoreTokens == {<<"a">>, <<":", "x">>}
ScorePaths == PathsOfTokens(ScoreTokens, MaxScoreSegs)

ManifestIdle ==
    /\ g_paths = <<>>
    /\ g_pathname = <<>>
    /\ g_manifest = <<>>
    /\ g_resolved = Null
    /\ g_stage = "declared"

\* the pages have been discovered
RankInit0 ==
    /\ g_paths \in RankInputs
    /\ g_pathname = <<>>
    /\ g_manifest = <<>>
    /\ g_resolved = Null
    /\ g_stage = "declared"

\* one page, whose route path may hold empty tokens
ParseInit0 ==
    /\ g_paths \in {<<p>> : p \in ParsePaths}
    /\ g_pathname = <<>>
    /\ g_manifest = <<>>
    /\ g_resolved = Null
    /\ g_stage = "declared"

\* one page of up to MaxScoreSegs segments, found before the root page
ScoreInit0 ==
    /\ g_paths \in {<<p, P_root>> : p \in ScorePaths}
    /\ g_pathname = <<>>
    /\ g_manifest = <<>>
    /\ g_resolved = Null
    /\ g_stage = "declared"

ResolveInit0 ==
    /\ g_paths \in ResolveInputs
    /\ g_pathname \in ResolvePathnames
    /\ g_manifest = <<>>
    /\ g_resolved = Null
    /\ g_stage = "declared"

(***************************************************************************)
(* history.js used directly: listen, its unlisten functions, push and the  *)
(* popstate event; the callbacks are opaque and do not call back            *)
(***************************************************************************)
\* the callbacks an application hands to listen
Callbacks == {"cb1", "cb2"}

\* the paths an application pushes
HistPaths == {P_a, P_b}

\* _ensureListening: is _onPopState attached afterwards
ensureListening(listening, attached) == IF listening THEN attached ELSE TRUE

\* _listeners.add(callback): a Set keeps one entry per callback
addListener(cbs, cb) == IF cb \in SeqRange(cbs) THEN cbs ELSE Append(cbs, cb)

\* mutant: the popstate handler stays attached when the last callback leaves
noListenerLeft_never(cbs) == FALSE

\* the unlisten function: _listeners.size === 0
noListenerLeft(cbs) == Len(cbs) = 0

\* mutant: the callbacks are called newest first
onPopStateCalls_reversed(cbs, path) ==
    [i \in 1..Len(cbs) |-> [op |-> "callback", cb |-> cbs[Len(cbs) + 1 - i], path |-> path]]

\* _onPopState: for (const cb of _listeners) cb(path)
onPopStateCalls(cbs, path) ==
    [i \in 1..Len(cbs) |-> [op |-> "callback", cb |-> cbs[i], path |-> path]]

HistCanAct == h_ops < MaxHistOps

\* listen(callback)
HistListen(cb) ==
    /\ HistCanAct
    /\ h_ops' = h_ops + 1
    /\ v_handler' = ensureListening(_listening, v_handler)
    /\ _listening' = TRUE
    /\ _listeners' = addListener(_listeners, cb)
    /\ h_unlistens' = h_unlistens \cup {cb}
    /\ h_log' = h_log
          \o (IF _listening THEN <<>>
              ELSE <<[op |-> "addEventListener", cb |-> "_onPopState", path |-> <<>>]>>)
          \o <<[op |-> "listen", cb |-> cb, path |-> <<>>]>>
    /\ UNCHANGED v_history

\* a function returned by listen(callback) is called
HistUnlisten(cb) ==
    /\ HistCanAct
    /\ cb \in h_unlistens
    /\ h_ops' = h_ops + 1
    /\ LET left == deleteListener(_listeners, cb)
       IN /\ _listeners' = left
          /\ v_handler' = (IF noListenerLeft(left) THEN FALSE ELSE v_handler)
          /\ _listening' = (IF noListenerLeft(left) THEN FALSE ELSE _listening)
          /\ h_log' = h_log
                \o <<[op |-> "unlisten", cb |-> cb, path |-> <<>>]>>
                \o (IF noListenerLeft(left)
                    THEN <<[op |-> "removeEventListener", cb |-> "_onPopState",
                            path |-> <<>>]>>
                    ELSE <<>>)
    /\ UNCHANGED <<h_unlistens, v_history>>

\* push(path)
HistPush(path) ==
    /\ HistCanAct
    /\ h_ops' = h_ops + 1
    /\ v_history' = pushState(v_history, path)
    /\ UNCHANGED <<_listeners, _listening, v_handler, h_unlistens, h_log>>

\* a popstate event: the browser has moved to entry pos of the session and
\* runs the handlers attached to window
HistPopState(pos) ==
    /\ HistCanAct
    /\ pos \in 1..Len(v_history.stack) /\ pos # v_history.pos
    /\ h_ops' = h_ops + 1
    /\ v_history' = [v_history EXCEPT !.pos = pos]
    /\ h_log' = h_log
          \o <<[op |-> "popstate", cb |-> "window", path |-> v_history.stack[pos]]>>
          \o (IF v_handler
              THEN onPopStateCalls(_listeners, current([v_history EXCEPT !.pos = pos]))
              ELSE <<>>)
    /\ UNCHANGED <<_listeners, _listening, v_handler, h_unlistens>>

HistoryIdle ==
    /\ h_unlistens = {}
    /\ h_log = <<>>
    /\ h_ops = 0

\* what the history specification leaves alone of createRouter's state
vrest == <<mountFn, cleanupFn, _started, _hasMounted, _unlisten, _resolveNavigation,
           v_running, v_content, v_log, v_ids, v_ops, v_last>>

(***************************************************************************)
(* events.js: the route-change subscribers                                 *)
(*                                                                         *)
(* A subscriber is an opaque callback; what it does when called is fixed   *)
(* per callback: return, throw, or call an unsubscribe function.           *)
(***************************************************************************)
Subscribers == {"s1", "s2", "s3"}

\* what a callback does when it is called
Returns == [do |-> "return", target |-> "none"]
Throws == [do |-> "throw", target |-> "none"]
Unsubscribes(cb) == [do |-> "unsubscribe", target |-> cb]

\* the applications modelled: s1 and s2 can misbehave, s3 only records
Behaviours ==
    {b \in [Subscribers -> {Returns, Throws} \cup {Unsubscribes(c) : c \in {"s1", "s2"}}] :
        /\ b["s3"] = Returns
        /\ b["s2"] # Unsubscribes("s2")}

\* mutant: the unsubscribe function leaves the callback in the Set
deleteSubscriber_keep(subs, cb) == subs

\* _subscribers.delete(callback)
deleteSubscriber(subs, cb) == SelectSeq(subs, LAMBDA c : c # cb)

\* _subscribers.add(callback): a Set keeps one entry per callback
addSubscriber(subs, cb) == IF cb \in SeqRange(subs) THEN subs ELSE Append(subs, cb)

\* _dispatchRouteChange has no try/catch: a throwing callback ends the loop
propagates(outcome) == outcome.do = "throw"

\* mutant: the loop walks a copy of the Set taken when the dispatch began
iteratorAfterDelete_snapshot(todo, cb) == todo

\* a Set iterator does not visit an entry deleted before its turn
iteratorAfterDelete(todo, cb) == SelectSeq(todo, LAMBDA c : c # cb)

\* for (const cb of _subscribers) cb(detail): st holds the Set, the entries
\* the iterator has not visited yet and the log; an entry deleted before its
\* turn is not visited
RECURSIVE dispatchLoop(_, _, _, _)
dispatchLoop(st, behaviour, unsubs, n) ==
    IF st.todo = <<>> THEN st
    ELSE LET cb == Head(st.todo)
             outcome == behaviour[cb]
             called == Append(st.log, [op |-> "call", cb |-> cb, by |-> "dispatch", n |-> n])
             acts == outcome.do = "unsubscribe" /\ outcome.target \in unsubs
             after == IF acts
                      THEN [subs |-> deleteSubscriber(st.subs, outcome.target),
                            todo |-> iteratorAfterDelete(Tail(st.todo), outcome.target),
                            log |-> Append(called, [op |-> "unsubscribe",
                                                    cb |-> outcome.target,
                                                    by |-> cb, n |-> n])]
                      ELSE [subs |-> st.subs, todo |-> Tail(st.todo), log |-> called]
         IN IF propagates(outcome)
            THEN [after EXCEPT !.todo = <<>>,
                               !.log = Append(@, [op |-> "thrown", cb |-> cb,
                                                  by |-> "dispatch", n |-> n])]
            ELSE dispatchLoop(after, behaviour, unsubs, n)

EvCanAct == e_ops < MaxEvOps

\* onRouteChange(callback)
OnRouteChange(cb) ==
    /\ EvCanAct
    /\ e_ops' = e_ops + 1
    /\ _subscribers' = addSubscriber(_subscribers, cb)
    /\ e_unsubs' = e_unsubs \cup {cb}
    /\ e_log' = Append(e_log, [op |-> "subscribe", cb |-> cb, by |-> "app", n |-> e_ops + 1])
    /\ UNCHANGED e_behaviour

\* the application calls a function returned by onRouteChange(callback)
Unsubscribe(cb) ==
    /\ EvCanAct
    /\ cb \in e_unsubs
    /\ e_ops' = e_ops + 1
    /\ _subscribers' = deleteSubscriber(_subscribers, cb)
    /\ e_log' = Append(e_log, [op |-> "unsubscribe", cb |-> cb, by |-> "app", n |-> e_ops + 1])
    /\ UNCHANGED <<e_unsubs, e_behaviour>>

\* _dispatchRouteChange(detail), as _resolve calls it on every route swap
DispatchRouteChange ==
    /\ EvCanAct
    /\ e_ops' = e_ops + 1
    /\ LET st == dispatchLoop(
                    [subs |-> _subscribers, todo |-> _subscribers,
                     log |-> Append(e_log, [op |-> "dispatch", cb |-> "none",
                                            by |-> "app", n |-> e_ops + 1])],
                    e_behaviour, e_unsubs, e_ops + 1)
       IN /\ _subscribers' = st.subs
          /\ e_log' = st.log
    /\ UNCHANGED <<e_unsubs, e_behaviour>>

\* _clearSubscribers()
ClearSubscribers ==
    /\ EvCanAct
    /\ e_ops' = e_ops + 1
    /\ _subscribers' = <<>>
    /\ e_log' = Append(e_log, [op |-> "clear", cb |-> "none", by |-> "app", n |-> e_ops + 1])
    /\ UNCHANGED <<e_unsubs, e_behaviour>>

\* _getSubscriberCount()
_getSubscriberCount == Len(_subscribers)

EventsIdle ==
    /\ _subscribers = <<>>
    /\ e_unsubs = {}
    /\ e_behaviour = [c \in Subscribers |-> Returns]
    /\ e_log = <<>>
    /\ e_ops = 0

EventsInit0 ==
    /\ _subscribers = <<>>
    /\ e_unsubs = {}
    /\ e_behaviour \in Behaviours
    /\ e_log = <<>>
    /\ e_ops = 0

(***************************************************************************)
(* createRouter(config): the validation of the configuration               *)
(***************************************************************************)
\* config.container: an HTMLElement, null, or an object that is no element
Containers == {"element", "null", "object"}

\* config.routes: V0Routes, an empty array, or no array at all
RoutesValues == {"array", "empty", "undefined"}

\* mutant: any container is accepted
invalidContainer_never(container) == FALSE

\* !container || !(container instanceof HTMLElement)
invalidContainer(container) == container = "null" \/ container # "element"

\* mutant: any routes value is accepted
invalidRoutes_never(routes) == FALSE

\* !Array.isArray(routes) || routes.length === 0
invalidRoutes(routes) == routes = "undefined" \/ routes = "empty"

\* createRouter(config): throws, or returns { start, destroy } with nothing started
CreateRouter ==
    /\ c_router = "none"
    /\ c_router' = IF invalidContainer(c_container) \/ invalidRoutes(c_routes)
                   THEN "thrown" ELSE "returned"
    /\ UNCHANGED <<c_container, c_routes, vvars>>

\* in the other specifications the router has been created from a valid configuration
CreateIdle ==
    /\ c_container = "element"
    /\ c_routes = "array"
    /\ c_router = "returned"

CreateInit0 ==
    /\ c_container \in Containers
    /\ c_routes \in RoutesValues
    /\ c_router = "none"


(***************************************************************************)
(* back, forward and go (navigation.ts; navigate.js has back and forward)  *)
(*                                                                         *)
(* history.back(), forward() and go(delta) only queue a traversal; the     *)
(* browser makes it in a later task and then fires popstate.               *)
(***************************************************************************)
\* the deltas go() is called with
GoDeltas == {0 - 2, 2}

CanTraverse == Len(b_pending) < MaxTraversals

\* zenBack(): window.history.back()
ZenBack ==
    /\ CanTraverse
    /\ b_pending' = Append(b_pending, 0 - 1)
    /\ UNCHANGED rvars

\* zenForward(): window.history.forward()
ZenForward ==
    /\ CanTraverse
    /\ b_pending' = Append(b_pending, 1)
    /\ UNCHANGED rvars

\* zenGo(delta): window.history.go(delta)
ZenGo(delta) ==
    /\ CanTraverse
    /\ b_pending' = Append(b_pending, delta)
    /\ UNCHANGED rvars

\* the browser makes the oldest traversal asked for: a delta that leaves the
\* session history does nothing; otherwise the entry changes and popstate is
\* fired, which handlePopState receives once initRouter has added it
Traverse(ret) ==
    /\ b_pending # <<>>
    /\ rt_micro = <<>>
    /\ b_pending' = Tail(b_pending)
    /\ LET pos == rt_history.pos + Head(b_pending)
       IN IF pos \notin 1..Len(rt_history.stack)
          THEN UNCHANGED rvars
          ELSE IF ~rt_inited
          THEN /\ rt_history' = [rt_history EXCEPT !.pos = pos]
               /\ UNCHANGED <<rt_impl, rt_inited, routeManifest, routerOutlet,
                              currentRoute, rt_html, rt_window, rt_loading,
                              rt_micro, rt_log, rt_ids>>
          ELSE RtPopState(pos, ret)

TraverseIdle == b_pending = <<>>


(***************************************************************************)
(* history.js: push, replace and current against the browser's URL parser  *)
(*                                                                         *)
(* pushState and replaceState take a URL reference, which the browser      *)
(* resolves against the current location: query split off, relative paths  *)
(* resolved, "." and ".." segments removed; "//..." names another origin   *)
(* and makes the call throw.                                               *)
(***************************************************************************)
UrlChars == {"/", "a", ".", "?"}

\* the strings handed to push and replace
UrlInputs == SeqsUpTo(UrlChars, MaxPathLen)

Dot == <<".">>
DotDot == <<".", ".">>

\* the URL parser's path state: a ".." segment drops the segment before it,
\* a "." segment is dropped, and either of them in last place leaves a
\* trailing slash
RECURSIVE removeDotSegments(_, _, _)
removeDotSegments(segs, i, out) ==
    IF i > Len(segs) THEN out
    ELSE LET seg == segs[i]
             trailing == IF i = Len(segs) THEN <<<<>>>> ELSE <<>>
         IN IF seg = DotDot
            THEN removeDotSegments(segs, i + 1,
                    (IF out = <<>> THEN out ELSE SubSeq(out, 1, Len(out) - 1)) \o trailing)
            ELSE IF seg = Dot
            THEN removeDotSegments(segs, i + 1, out \o trailing)
            ELSE removeDotSegments(segs, i + 1, Append(out, seg))

\* the pathname of a list of segments
serializePath(segs) == <<"/">> \o jsJoin(segs)

\* the reference names another origin or no URL at all
isCrossOrigin(input) == Len(input) >= 2 /\ input[1] = "/" /\ input[2] = "/"

\* the entry the browser makes of a URL reference, base being the current one
parseUrl(base, input) ==
    LET q == IndexOf(input, "?", 1)
        pathPart == IF q = 0 THEN input ELSE SubSeq(input, 1, q - 1)
        search == IF q = 0 THEN <<>> ELSE SubSeq(input, q, Len(input))
        baseSegs == Tail(SplitBy(base.pathname, "/", 1, <<>>))
    IN IF pathPart = <<>>
       THEN [pathname |-> base.pathname, search |-> IF q = 0 THEN base.search ELSE search]
       ELSE IF pathPart[1] = "/"
       THEN [pathname |-> serializePath(removeDotSegments(
                              Tail(SplitBy(pathPart, "/", 1, <<>>)), 1, <<>>)),
             search |-> search]
       ELSE [pathname |-> serializePath(removeDotSegments(
                              SubSeq(baseSegs, 1, Len(baseSegs) - 1)
                                 \o SplitBy(pathPart, "/", 1, <<>>), 1, <<>>)),
             search |-> search]

CanWrite == u_writes < MaxWrites

\* push(path): history.pushState({}, '', path)
Push(path) ==
    /\ CanWrite
    /\ u_writes' = u_writes + 1
    /\ u_path' = path
    /\ u_op' = "push"
    /\ u_threw' = isCrossOrigin(path)
    /\ u_history' = IF isCrossOrigin(path) THEN u_history
                    ELSE pushState(u_history, parseUrl(current(u_history), path))
    /\ u_read' = FALSE
    /\ UNCHANGED u_current

\* replace(path): history.replaceState({}, '', path)
Replace(path) ==
    /\ CanWrite
    /\ u_writes' = u_writes + 1
    /\ u_path' = path
    /\ u_op' = "replace"
    /\ u_threw' = isCrossOrigin(path)
    /\ u_history' = IF isCrossOrigin(path) THEN u_history
                    ELSE [u_history EXCEPT
                             !.stack[u_history.pos] = parseUrl(current(u_history), path)]
    /\ u_read' = FALSE
    /\ UNCHANGED u_current

\* current(): window.location.pathname
Current ==
    /\ u_op # "none" /\ ~u_read
    /\ u_read' = TRUE
    /\ u_current' = current(u_history).pathname
    /\ UNCHANGED <<u_history, u_path, u_op, u_threw, u_writes>>

UrlIdle ==
    /\ u_history = [stack |-> <<[pathname |-> P_root, search |-> <<>>]>>, pos |-> 1]
    /\ u_path = <<>>
    /\ u_op = "none"
    /\ u_threw = FALSE
    /\ u_read = FALSE
    /\ u_current = <<>>
    /\ u_writes = 0


(***************************************************************************)
(* The navigation package: zenNavigate and its in-progress flag            *)
(*                                                                         *)
(* router.navigate is a collaborator that throws or returns a promise,     *)
(* which later resolves or rejects; a popstate listener may call           *)
(* zenNavigate again while the event is being dispatched.                  *)
(***************************************************************************)
ZenTargets == {P_a, P_a \o <<"/">>, <<"b">>, <<"/", "/", "x">>}
RouterNavigateDoes == {"awaits", "throws"}
Settlements == {"resolved", "rejected"}

\* normalizePath(path) of the navigation package, at location loc
zenNormalizePath(path, loc) ==
    LET abs == IF path # <<>> /\ path[1] = "/" THEN path
               ELSE LET segs == jsSplit(loc)
                    IN jsJoin(SubSeq(segs, 1, Len(segs) - 1)) \o <<"/">> \o path
    IN IF abs # P_root /\ abs[Len(abs)] = "/" THEN SubSeq(abs, 1, Len(abs) - 1)
       ELSE abs

\* mutant: the flag is cleared only when the call succeeds
flagAfter_success(outcome) == outcome \in {"threw", "rejected"}

\* finally { isNavigating = false }
flagAfter(outcome) == FALSE

ZenSt == [flag |-> isNavigating, waiting |-> z_waiting, hist |-> z_history,
          log |-> z_log, calls |-> z_calls]

\* the end of a zenNavigate call that passed the guard: scrollTo unless the
\* call threw, then the finally block
zenFinish(st, id, outcome) ==
    [st EXCEPT !.flag = flagAfter(outcome),
               !.log = @ \o (IF outcome \in {"returned", "resolved"}
                             THEN <<[op |-> "scroll", id |-> id]>> ELSE <<>>)
                         \o <<[op |-> outcome, id |-> id]>>]

\* zenNavigate(to, { replace }) up to its return or its await; does is what
\* router.navigate does, reenter the number of zenNavigate calls the popstate
\* listeners make
RECURSIVE zenCall(_, _, _, _, _)
zenCall(st, to, replace, does, reenter) ==
    LET id == st.calls + 1
        called == [st EXCEPT !.calls = id,
                             !.log = Append(@, [op |-> "call", id |-> id, to |-> to])]
    IN  IF st.flag
        THEN [called EXCEPT !.log = Append(@, [op |-> "blocked", id |-> id])]
        ELSE LET entered == [called EXCEPT !.flag = TRUE,
                                !.log = Append(@, [op |-> "enter", id |-> id])]
             IN  IF z_router
                 THEN LET asked == [entered EXCEPT
                                       !.log = Append(@, [op |-> "router", id |-> id])]
                      IN  IF does = "throws" THEN zenFinish(asked, id, "threw")
                          ELSE [asked EXCEPT !.waiting = @ \cup {id}]
                 ELSE LET normalizedPath ==
                              zenNormalizePath(to, st.hist.stack[st.hist.pos])
                      IN  IF isCrossOrigin(normalizedPath)
                          THEN zenFinish(entered, id, "threw")
                          ELSE LET written == [entered EXCEPT
                                      !.hist = IF replace
                                               THEN [@ EXCEPT !.stack[@.pos] = normalizedPath]
                                               ELSE pushState(@, normalizedPath),
                                      !.log = @ \o <<[op |-> "history", id |-> id],
                                                     [op |-> "popstate", id |-> id]>>]
                                   dispatched ==
                                       IF reenter > 0 /\ id < MaxZenCalls
                                       THEN zenCall(written, to, replace, does, reenter - 1)
                                       ELSE written
                               IN  zenFinish(dispatched, id, "returned")

ZenSet(st) ==
    /\ isNavigating' = st.flag
    /\ z_waiting' = st.waiting
    /\ z_history' = st.hist
    /\ z_log' = st.log
    /\ z_calls' = st.calls
    /\ UNCHANGED z_router

\* zenNavigate(to, options)
ZenNavigate(to, replace, does, reenter) ==
    /\ z_calls < MaxZenCalls
    /\ ZenSet(zenCall(ZenSt, to, replace, does, reenter))

\* the promise of router.navigate settles: the rest of zenNavigate
ZenSettles(id, outcome) ==
    /\ id \in z_waiting
    /\ ZenSet(zenFinish([ZenSt EXCEPT !.waiting = @ \ {id}], id, outcome))

ZenIdle ==
    /\ isNavigating = FALSE
    /\ z_router = FALSE
    /\ z_waiting = {}
    /\ z_history = [stack |-> <<P_root>>, pos |-> 1]
    /\ z_log = <<>>
    /\ z_calls = 0

\* the module has been evaluated, with or without a router on the window
ZenInit0 ==
    /\ isNavigating = FALSE
    /\ z_router \in BOOLEAN
    /\ z_waiting = {}
    /\ z_history = [stack |-> <<P_root>>, pos |-> 1]
    /\ z_log = <<>>
    /\ z_calls = 0

(***************************************************************************)
(* runtime.ts: prefetch and the module cache of the route records          *)
(*                                                                         *)
(* record.load is a collaborator that returns a module, returns a promise  *)
(* or throws.                                                              *)
(***************************************************************************)
\* the manifest: '/' ships with its module, '/a' and '/:id' have a load
PfManifest ==
    << [path |-> P_root, paramNames |-> <<>>, module |-> TRUE, id |-> 1],
       [path |-> P_a, paramNames |-> <<>>, module |-> FALSE, id |-> 2],
       [path |-> P_id, paramNames |-> <<<<"i", "d">>>>, module |-> FALSE, id |-> 3] >>

\* paths handed to prefetch and navigate: '/b' and '/x' match '/:id',
\* '/a/b' matches nothing, '' is the root
PfPaths == {<<>>, P_a, P_b, P_x, <<"/", "a", "/", "b">>}

LoadDoes == {"module", "promise", "throws"}

\* record.module of each route: "none", or what load() returned
NoModules == [id \in 1..Len(PfManifest) |-> IF PfManifest[id].module THEN "module" ELSE "none"]

\* resolved.record.load && !resolved.record.module
moduleMissing(module) == module = "none"

\* prefetch(path)
Prefetch(path, does) ==
    LET normalizedPath == IF path = <<>> THEN P_root ELSE path
        resolved == rtResolveRoute(PfManifest, normalizedPath)
    IN  /\ Len(p_log) < MaxPrefetchOps
        /\ IF normalizedPath \in prefetchedRoutes
           THEN /\ p_log' = Append(p_log, [op |-> "prefetch", path |-> path, route |-> 0,
                                           loaded |-> FALSE, known |-> TRUE])
                /\ UNCHANGED <<prefetchedRoutes, p_module>>
           ELSE IF resolved = Null
           THEN /\ p_log' = Append(p_log, [op |-> "prefetch", path |-> path, route |-> 0,
                                           loaded |-> FALSE, known |-> FALSE])
                /\ UNCHANGED <<prefetchedRoutes, p_module>>
           ELSE LET id == resolved.record.id
                    calls == moduleMissing(p_module[id])
                IN  /\ prefetchedRoutes' = prefetchedRoutes \cup {normalizedPath}
                    /\ p_module' = IF calls /\ does # "throws"
                                   THEN [p_module EXCEPT ![id] = does]
                                   ELSE p_module
                    /\ p_log' = Append(p_log, [op |-> "prefetch", path |-> path, route |-> id,
                                               loaded |-> calls, known |-> FALSE])

\* resolveAndRender(path, ...): resolved.record.module || resolved.record.load()
PfNavigate(path, does) ==
    LET resolved == rtResolveRoute(PfManifest, path)
    IN  /\ Len(p_log) < MaxPrefetchOps
        /\ p_log' = Append(p_log,
              IF resolved = Null
              THEN [op |-> "navigate", path |-> path, route |-> 0,
                    loaded |-> FALSE, known |-> FALSE]
              ELSE [op |-> "navigate", path |-> path, route |-> resolved.record.id,
                    loaded |-> p_module[resolved.record.id] = "none", known |-> FALSE])
        /\ UNCHANGED <<prefetchedRoutes, p_module>>

\* isPrefetched(path)
isPrefetched(path) == (IF path = <<>> THEN P_root ELSE path) \in prefetchedRoutes

PrefetchIdle ==
    /\ prefetchedRoutes = {}
    /\ p_module = NoModules
    /\ p_log = <<>>

(***************************************************************************)
(* Specifications                                                          *)
(***************************************************************************)
vars == <<mvars, tvars, vvars, rvars, gvars, hvars, evars, cvars, bvars, uvars, qvars, zvars, pvars>>

MatchInit ==
    /\ m_routes \in RouteArrays
    /\ m_pathname \in Pathnames
    /\ m_result = Null
    /\ m_done = FALSE
    /\ TplIdle
    /\ RouterIdle
    /\ RuntimeIdle
    /\ ManifestIdle
    /\ HistoryIdle
    /\ EventsIdle /\ CreateIdle /\ TraverseIdle /\ UrlIdle /\ GuardsIdle /\ ZenIdle /\ PrefetchIdle

CallMatchRoute ==
    /\ ~m_done
    /\ m_result' = matchRoute(m_routes, m_pathname)
    /\ m_done' = TRUE
    /\ UNCHANGED <<m_routes, m_pathname>>
    /\ UNCHANGED <<tvars, vvars, rvars, gvars, hvars, evars, cvars, bvars, uvars, qvars, zvars, pvars>>

MatchNext == CallMatchRoute

SpecMatch == MatchInit /\ [][MatchNext]_vars

MatchIdle ==
    /\ m_routes = <<>>
    /\ m_pathname = <<>>
    /\ m_result = Null
    /\ m_done = FALSE

TemplateInit == TplInit /\ MatchIdle /\ RouterIdle /\ RuntimeIdle /\ ManifestIdle /\ HistoryIdle /\ EventsIdle /\ CreateIdle /\ TraverseIdle /\ UrlIdle /\ GuardsIdle /\ ZenIdle /\ PrefetchIdle

TemplateNext ==
    \/ TplStart /\ UNCHANGED <<mvars, vvars, rvars, gvars, hvars, evars, cvars, bvars, uvars, qvars, zvars, pvars>>
    \/ \E nextPath \in TplPaths : TplClick(nextPath) /\ UNCHANGED <<mvars, vvars, rvars, gvars, hvars, evars, cvars, bvars, uvars, qvars, zvars, pvars>>
    \/ \E pos \in 1..Len(t_history.stack) : TplPopState(pos) /\ UNCHANGED <<mvars, vvars, rvars, gvars, hvars, evars, cvars, bvars, uvars, qvars, zvars, pvars>>
    \/ \E p \in t_pending, kind \in LoadKinds : TplLoadSettles(p, kind) /\ UNCHANGED <<mvars, vvars, rvars, gvars, hvars, evars, cvars, bvars, uvars, qvars, zvars, pvars>>

SpecTemplate == TemplateInit /\ [][TemplateNext]_vars

\* an application with one router instance
OneInstance == {"r1"}

RouterInit == RouterInit0(OneInstance) /\ MatchIdle /\ TplIdle /\ RuntimeIdle /\ ManifestIdle /\ HistoryIdle /\ EventsIdle /\ CreateIdle /\ TraverseIdle /\ UrlIdle /\ GuardsIdle /\ ZenIdle /\ PrefetchIdle

RouterNext ==
    \/ \E r \in OneInstance : Start(r) /\ UNCHANGED <<mvars, tvars, rvars, gvars, hvars, evars, cvars, bvars, uvars, qvars, zvars, pvars>>
    \/ \E r \in OneInstance : Destroy(r) /\ UNCHANGED <<mvars, tvars, rvars, gvars, hvars, evars, cvars, bvars, uvars, qvars, zvars, pvars>>
    \/ \E path \in V0Paths : Navigate(path) /\ UNCHANGED <<mvars, tvars, rvars, gvars, hvars, evars, cvars, bvars, uvars, qvars, zvars, pvars>>
    \/ \E pos \in 1..Len(v_history.stack) : PopState(pos) /\ UNCHANGED <<mvars, tvars, rvars, gvars, hvars, evars, cvars, bvars, uvars, qvars, zvars, pvars>>
    \/ \E p \in v_running : LoadResolves(p) /\ UNCHANGED <<mvars, tvars, rvars, gvars, hvars, evars, cvars, bvars, uvars, qvars, zvars, pvars>>
    \/ \E p \in v_running : LoadRejects(p) /\ UNCHANGED <<mvars, tvars, rvars, gvars, hvars, evars, cvars, bvars, uvars, qvars, zvars, pvars>>

SpecRouter == RouterInit /\ [][RouterNext]_vars

RuntimeInit == RtInit /\ MatchIdle /\ TplIdle /\ RouterIdle /\ ManifestIdle /\ HistoryIdle /\ EventsIdle /\ CreateIdle /\ TraverseIdle /\ UrlIdle /\ GuardsIdle /\ ZenIdle /\ PrefetchIdle

RuntimeNext ==
    \/ \E outlet \in BOOLEAN, ret \in LoadReturns :
          RtInitRouter(outlet, ret) /\ UNCHANGED <<mvars, tvars, vvars, gvars, hvars, evars, cvars, bvars, uvars, qvars, zvars, pvars>>
    \/ \E to \in RtTargets, replace \in BOOLEAN, ret \in LoadReturns :
          RtNavigate(to, replace, ret) /\ UNCHANGED <<mvars, tvars, vvars, gvars, hvars, evars, cvars, bvars, uvars, qvars, zvars, pvars>>
    \/ \E pos \in 1..Len(rt_history.stack), ret \in LoadReturns :
          RtPopState(pos, ret) /\ UNCHANGED <<mvars, tvars, vvars, gvars, hvars, evars, cvars, bvars, uvars, qvars, zvars, pvars>>
    \/ \E k \in rt_loading : RtLoadResolves(k) /\ UNCHANGED <<mvars, tvars, vvars, gvars, hvars, evars, cvars, bvars, uvars, qvars, zvars, pvars>>
    \/ \E k \in rt_loading : RtLoadRejects(k) /\ UNCHANGED <<mvars, tvars, vvars, gvars, hvars, evars, cvars, bvars, uvars, qvars, zvars, pvars>>
    \/ RtMicrotask /\ UNCHANGED <<mvars, tvars, vvars, gvars, hvars, evars, cvars, bvars, uvars, qvars, zvars, pvars>>

SpecRuntime == RuntimeInit /\ [][RuntimeNext]_vars

OthersIdle == MatchIdle /\ TplIdle /\ RouterIdle /\ RuntimeIdle /\ HistoryIdle /\ EventsIdle /\ CreateIdle /\ TraverseIdle /\ UrlIdle /\ GuardsIdle /\ ZenIdle /\ PrefetchIdle

RankInit == RankInit0 /\ OthersIdle

RankNext == GenerateRouteManifest /\ UNCHANGED <<mvars, tvars, vvars, rvars, hvars, evars, cvars, bvars, uvars, qvars, zvars, pvars>>

SpecRank == RankInit /\ [][RankNext]_vars

ResolveInit == ResolveInit0 /\ OthersIdle

ResolveNext ==
    \/ GenerateRouteManifest /\ UNCHANGED <<mvars, tvars, vvars, rvars, hvars, evars, cvars, bvars, uvars, qvars, zvars, pvars>>
    \/ ResolveRoute /\ UNCHANGED <<mvars, tvars, vvars, rvars, hvars, evars, cvars, bvars, uvars, qvars, zvars, pvars>>

SpecResolve == ResolveInit /\ [][ResolveNext]_vars

ParseInit == ParseInit0 /\ OthersIdle

SpecParse == ParseInit /\ [][RankNext]_vars

ScoreInit == ScoreInit0 /\ OthersIdle

SpecScore == ScoreInit /\ [][RankNext]_vars

HistoryInit ==
    /\ HistoryIdle
    /\ MatchIdle /\ TplIdle /\ RouterIdle /\ RuntimeIdle /\ ManifestIdle /\ EventsIdle /\ CreateIdle /\ TraverseIdle /\ UrlIdle /\ GuardsIdle /\ ZenIdle /\ PrefetchIdle

HistoryNext ==
    \/ \E cb \in Callbacks :
          HistListen(cb) /\ UNCHANGED <<mvars, tvars, rvars, gvars, vrest, evars, cvars, bvars, uvars, qvars, zvars, pvars>>
    \/ \E cb \in Callbacks :
          HistUnlisten(cb) /\ UNCHANGED <<mvars, tvars, rvars, gvars, vrest, evars, cvars, bvars, uvars, qvars, zvars, pvars>>
    \/ \E path \in HistPaths :
          HistPush(path) /\ UNCHANGED <<mvars, tvars, rvars, gvars, vrest, evars, cvars, bvars, uvars, qvars, zvars, pvars>>
    \/ \E pos \in 1..Len(v_history.stack) :
          HistPopState(pos) /\ UNCHANGED <<mvars, tvars, rvars, gvars, vrest, evars, cvars, bvars, uvars, qvars, zvars, pvars>>

SpecHistory == HistoryInit /\ [][HistoryNext]_vars

EventsInit ==
    /\ EventsInit0
    /\ MatchIdle /\ TplIdle /\ RouterIdle /\ RuntimeIdle /\ ManifestIdle /\ HistoryIdle /\ CreateIdle /\ TraverseIdle /\ UrlIdle /\ GuardsIdle /\ ZenIdle /\ PrefetchIdle

EventsNext ==
    \/ \E cb \in Subscribers :
          OnRouteChange(cb) /\ UNCHANGED <<mvars, tvars, vvars, rvars, gvars, hvars, cvars, bvars, uvars, qvars, zvars, pvars>>
    \/ \E cb \in Subscribers :
          Unsubscribe(cb) /\ UNCHANGED <<mvars, tvars, vvars, rvars, gvars, hvars, cvars, bvars, uvars, qvars, zvars, pvars>>
    \/ DispatchRouteChange /\ UNCHANGED <<mvars, tvars, vvars, rvars, gvars, hvars, cvars, bvars, uvars, qvars, zvars, pvars>>
    \/ ClearSubscribers /\ UNCHANGED <<mvars, tvars, vvars, rvars, gvars, hvars, cvars, bvars, uvars, qvars, zvars, pvars>>

SpecEvents == EventsInit /\ [][EventsNext]_vars

Created == c_router = "returned"

CreateInit ==
    /\ CreateInit0
    /\ RouterIdle
    /\ MatchIdle /\ TplIdle /\ RuntimeIdle /\ ManifestIdle /\ HistoryIdle /\ EventsIdle /\ TraverseIdle /\ UrlIdle /\ GuardsIdle /\ ZenIdle /\ PrefetchIdle

\* start and destroy exist only on a returned router; navigate() of navigate.js
\* and the browser's popstate are there whatever createRouter did
CreateNext ==
    \/ CreateRouter /\ UNCHANGED <<mvars, tvars, rvars, gvars, hvars, evars, bvars, uvars, qvars, zvars, pvars>>
    \/ \E r \in OneInstance :
          Created /\ Start(r) /\ UNCHANGED <<mvars, tvars, rvars, gvars, hvars, evars, cvars, bvars, uvars, qvars, zvars, pvars>>
    \/ \E r \in OneInstance :
          Created /\ Destroy(r) /\ UNCHANGED <<mvars, tvars, rvars, gvars, hvars, evars, cvars, bvars, uvars, qvars, zvars, pvars>>
    \/ \E path \in V0Paths :
          Navigate(path) /\ UNCHANGED <<mvars, tvars, rvars, gvars, hvars, evars, cvars, bvars, uvars, qvars, zvars, pvars>>
    \/ \E pos \in 1..Len(v_history.stack) :
          PopState(pos) /\ UNCHANGED <<mvars, tvars, rvars, gvars, hvars, evars, cvars, bvars, uvars, qvars, zvars, pvars>>
    \/ \E p \in v_running :
          LoadResolves(p) /\ UNCHANGED <<mvars, tvars, rvars, gvars, hvars, evars, cvars, bvars, uvars, qvars, zvars, pvars>>
    \/ \E p \in v_running :
          LoadRejects(p) /\ UNCHANGED <<mvars, tvars, rvars, gvars, hvars, evars, cvars, bvars, uvars, qvars, zvars, pvars>>

SpecCreate == CreateInit /\ [][CreateNext]_vars

TraverseInit ==
    /\ RtInit
    /\ TraverseIdle
    /\ MatchIdle /\ TplIdle /\ RouterIdle /\ ManifestIdle /\ HistoryIdle /\ EventsIdle /\ CreateIdle /\ UrlIdle /\ GuardsIdle /\ ZenIdle /\ PrefetchIdle

TraverseNext ==
    \/ \E outlet \in BOOLEAN, ret \in LoadReturns :
          RtInitRouter(outlet, ret) /\ UNCHANGED <<mvars, tvars, vvars, gvars, hvars, evars, cvars, bvars, uvars, qvars, zvars, pvars>>
    \/ \E to \in {P_a, P_b}, ret \in LoadReturns :
          RtNavigate(to, FALSE, ret) /\ UNCHANGED <<mvars, tvars, vvars, gvars, hvars, evars, cvars, bvars, uvars, qvars, zvars, pvars>>
    \/ ZenBack /\ UNCHANGED <<mvars, tvars, vvars, gvars, hvars, evars, cvars, uvars, qvars, zvars, pvars>>
    \/ ZenForward /\ UNCHANGED <<mvars, tvars, vvars, gvars, hvars, evars, cvars, uvars, qvars, zvars, pvars>>
    \/ \E delta \in GoDeltas :
          ZenGo(delta) /\ UNCHANGED <<mvars, tvars, vvars, gvars, hvars, evars, cvars, uvars, qvars, zvars, pvars>>
    \/ \E ret \in LoadReturns :
          Traverse(ret) /\ UNCHANGED <<mvars, tvars, vvars, gvars, hvars, evars, cvars, uvars, qvars, zvars, pvars>>
    \/ \E k \in rt_loading : RtLoadResolves(k) /\ UNCHANGED <<mvars, tvars, vvars, gvars, hvars, evars, cvars, bvars, uvars, qvars, zvars, pvars>>
    \/ \E k \in rt_loading : RtLoadRejects(k) /\ UNCHANGED <<mvars, tvars, vvars, gvars, hvars, evars, cvars, bvars, uvars, qvars, zvars, pvars>>
    \/ RtMicrotask /\ UNCHANGED <<mvars, tvars, vvars, gvars, hvars, evars, cvars, bvars, uvars, qvars, zvars, pvars>>

SpecTraverse == TraverseInit /\ [][TraverseNext]_vars

\* the runtime router with guards and hooks registered around navigations
GuardsInit ==
    /\ RtInit
    /\ GuardsIdle
    /\ MatchIdle /\ TplIdle /\ RouterIdle /\ ManifestIdle /\ HistoryIdle /\ EventsIdle /\ CreateIdle /\ TraverseIdle /\ UrlIdle /\ ZenIdle /\ PrefetchIdle

GuardsNext ==
    \/ \E outlet \in BOOLEAN, ret \in LoadReturns :
          RtInitRouter(outlet, ret) /\ UNCHANGED <<mvars, tvars, vvars, gvars, hvars, evars, cvars, bvars, uvars, qvars, zvars, pvars>>
    \/ \E to \in {P_a, P_b}, ret \in LoadReturns :
          RtNavigate(to, FALSE, ret) /\ UNCHANGED <<mvars, tvars, vvars, gvars, hvars, evars, cvars, bvars, uvars, qvars, zvars, pvars>>
    \/ \E guard \in GuardFns :
          BeforeEach(guard) /\ UNCHANGED <<mvars, tvars, vvars, rvars, gvars, hvars, evars, cvars, bvars, uvars, zvars, pvars>>
    \/ \E guard \in GuardFns :
          RemoveGuard(guard) /\ UNCHANGED <<mvars, tvars, vvars, rvars, gvars, hvars, evars, cvars, bvars, uvars, zvars, pvars>>
    \/ \E hook \in HookFns :
          AfterEach(hook) /\ UNCHANGED <<mvars, tvars, vvars, rvars, gvars, hvars, evars, cvars, bvars, uvars, zvars, pvars>>
    \/ \E hook \in HookFns :
          RemoveHook(hook) /\ UNCHANGED <<mvars, tvars, vvars, rvars, gvars, hvars, evars, cvars, bvars, uvars, zvars, pvars>>
    \/ \E k \in rt_loading : RtLoadResolves(k) /\ UNCHANGED <<mvars, tvars, vvars, gvars, hvars, evars, cvars, bvars, uvars, qvars, zvars, pvars>>
    \/ \E k \in rt_loading : RtLoadRejects(k) /\ UNCHANGED <<mvars, tvars, vvars, gvars, hvars, evars, cvars, bvars, uvars, qvars, zvars, pvars>>
    \/ RtMicrotask /\ UNCHANGED <<mvars, tvars, vvars, gvars, hvars, evars, cvars, bvars, uvars, qvars, zvars, pvars>>

SpecGuards == GuardsInit /\ [][GuardsNext]_vars

\* what navigate(to) is called with where the same route is asked for again:
\* a page, the page by a relative path, and the page with one query written
\* in two orders
SameTargets == {P_a, <<"a">>,
                P_a \o <<"?", "k", "=", "v", "&", "j", "=", "w">>,
                P_a \o <<"?", "j", "=", "w", "&", "k", "=", "v">>}

\* runtime.ts alone
SameInit ==
    /\ RtInit
    /\ rt_impl = "runtime"
    /\ MatchIdle /\ TplIdle /\ RouterIdle /\ ManifestIdle /\ HistoryIdle /\ EventsIdle /\ CreateIdle /\ TraverseIdle /\ UrlIdle /\ GuardsIdle /\ ZenIdle /\ PrefetchIdle

SameNext ==
    \/ \E outlet \in BOOLEAN, ret \in LoadReturns :
          RtInitRouter(outlet, ret) /\ UNCHANGED <<mvars, tvars, vvars, gvars, hvars, evars, cvars, bvars, uvars, qvars, zvars, pvars>>
    \/ \E to \in SameTargets, replace \in BOOLEAN, ret \in LoadReturns :
          RtNavigate(to, replace, ret) /\ UNCHANGED <<mvars, tvars, vvars, gvars, hvars, evars, cvars, bvars, uvars, qvars, zvars, pvars>>
    \/ RtMicrotask /\ UNCHANGED <<mvars, tvars, vvars, gvars, hvars, evars, cvars, bvars, uvars, qvars, zvars, pvars>>

SpecSame == SameInit /\ [][SameNext]_vars

\* the calls of a start() on '/' whose load has resolved
StartedCalls(id, r) ==
    <<[e |-> "resolve", id |-> id, r |-> r, path |-> P_root, origin |-> "start",
       hadMounted |-> FALSE],
      [e |-> "load", id |-> id, r |-> r, route |-> 1, params |-> EmptyParams],
      [e |-> "mount", id |-> id, r |-> r, module |-> 1],
      [e |-> "event", id |-> id, r |-> r, path |-> P_root, matched |-> TRUE,
       params |-> EmptyParams]>>

\* an application with two router instances, r1 and then r2 started on '/',
\* both initial loads resolved; operations are counted from here
TwoStarted ==
    /\ mountFn = [r \in Routers |-> TRUE]
    /\ cleanupFn = [r \in Routers |-> TRUE]
    /\ _started = [r \in Routers |-> TRUE]
    /\ _hasMounted = [r \in Routers |-> TRUE]
    /\ _unlisten = [r \in Routers |-> TRUE]
    /\ _resolveNavigation = "r2"
    /\ _listeners = <<"r1", "r2">>
    /\ _listening = TRUE
    /\ v_handler = TRUE
    /\ v_history = [stack |-> <<P_root>>, pos |-> 1]
    /\ v_running = {}
    /\ v_content = [r \in Routers |-> 1]
    /\ v_log = StartedCalls(1, "r1") \o StartedCalls(2, "r2")
    /\ v_ids = 2
    /\ v_ops = 0
    /\ v_last = NoOp

TwoInit ==
    /\ TwoStarted
    /\ MatchIdle /\ TplIdle /\ RuntimeIdle /\ ManifestIdle /\ HistoryIdle /\ EventsIdle /\ CreateIdle /\ TraverseIdle /\ UrlIdle /\ GuardsIdle /\ ZenIdle /\ PrefetchIdle

TwoNext ==
    \/ \E r \in Routers : Start(r) /\ UNCHANGED <<mvars, tvars, rvars, gvars, hvars, evars, cvars, bvars, uvars, qvars, zvars, pvars>>
    \/ \E r \in Routers : Destroy(r) /\ UNCHANGED <<mvars, tvars, rvars, gvars, hvars, evars, cvars, bvars, uvars, qvars, zvars, pvars>>
    \/ \E path \in V0Paths : Navigate(path) /\ UNCHANGED <<mvars, tvars, rvars, gvars, hvars, evars, cvars, bvars, uvars, qvars, zvars, pvars>>
    \/ \E pos \in 1..Len(v_history.stack) : PopState(pos) /\ UNCHANGED <<mvars, tvars, rvars, gvars, hvars, evars, cvars, bvars, uvars, qvars, zvars, pvars>>
    \/ \E p \in v_running : LoadResolves(p) /\ UNCHANGED <<mvars, tvars, rvars, gvars, hvars, evars, cvars, bvars, uvars, qvars, zvars, pvars>>
    \/ \E p \in v_running : LoadRejects(p) /\ UNCHANGED <<mvars, tvars, rvars, gvars, hvars, evars, cvars, bvars, uvars, qvars, zvars, pvars>>

SpecTwoRouters == TwoInit /\ [][TwoNext]_vars

PrefetchInit ==
    /\ PrefetchIdle
    /\ MatchIdle /\ TplIdle /\ RouterIdle /\ RuntimeIdle /\ ManifestIdle /\ HistoryIdle /\ EventsIdle /\ CreateIdle /\ TraverseIdle /\ UrlIdle /\ GuardsIdle /\ ZenIdle

PrefetchNext ==
    \/ \E path \in PfPaths, does \in LoadDoes :
          Prefetch(path, does) /\ UNCHANGED <<mvars, tvars, vvars, rvars, gvars, hvars, evars, cvars, bvars, uvars, qvars, zvars>>
    \/ \E path \in PfPaths \ {<<>>}, does \in LoadDoes :
          PfNavigate(path, does) /\ UNCHANGED <<mvars, tvars, vvars, rvars, gvars, hvars, evars, cvars, bvars, uvars, qvars, zvars>>

SpecPrefetch == PrefetchInit /\ [][PrefetchNext]_vars

ZenInit ==
    /\ ZenInit0
    /\ MatchIdle /\ TplIdle /\ RouterIdle /\ RuntimeIdle /\ ManifestIdle /\ HistoryIdle /\ EventsIdle /\ CreateIdle /\ TraverseIdle /\ UrlIdle /\ GuardsIdle /\ PrefetchIdle

ZenNext ==
    \/ \E to \in ZenTargets, replace \in BOOLEAN, does \in RouterNavigateDoes, reenter \in 0..1 :
          ZenNavigate(to, replace, does, reenter) /\ UNCHANGED <<mvars, tvars, vvars, rvars, gvars, hvars, evars, cvars, bvars, uvars, qvars, pvars>>
    \/ \E id \in z_waiting, outcome \in Settlements :
          ZenSettles(id, outcome) /\ UNCHANGED <<mvars, tvars, vvars, rvars, gvars, hvars, evars, cvars, bvars, uvars, qvars, pvars>>

SpecZen == ZenInit /\ [][ZenNext]_vars

UrlInit ==
    /\ UrlIdle
    /\ MatchIdle /\ TplIdle /\ RouterIdle /\ RuntimeIdle /\ ManifestIdle /\ HistoryIdle /\ EventsIdle /\ CreateIdle /\ TraverseIdle /\ GuardsIdle /\ ZenIdle /\ PrefetchIdle

UrlNext ==
    \/ \E path \in UrlInputs :
          Push(path) /\ UNCHANGED <<mvars, tvars, vvars, rvars, gvars, hvars, evars, cvars, bvars, qvars, zvars, pvars>>
    \/ \E path \in UrlInputs :
          Replace(path) /\ UNCHANGED <<mvars, tvars, vvars, rvars, gvars, hvars, evars, cvars, bvars, qvars, zvars, pvars>>
    \/ Current /\ UNCHANGED <<mvars, tvars, vvars, rvars, gvars, hvars, evars, cvars, bvars, qvars, zvars, pvars>>

SpecUrl == UrlInit /\ [][UrlNext]_vars

\* matchPath on one route path and one pathname
MatchPathInit ==
    /\ m_routes \in {<<[path |-> p, id |-> 1]>> : p \in MatchPathRoutes}
    /\ m_pathname \in Pathnames
    /\ m_result = Null
    /\ m_done = FALSE
    /\ TplIdle /\ RouterIdle /\ RuntimeIdle /\ ManifestIdle /\ HistoryIdle /\ EventsIdle /\ CreateIdle /\ TraverseIdle /\ UrlIdle /\ GuardsIdle /\ ZenIdle /\ PrefetchIdle

SpecMatchPath == MatchPathInit /\ [][MatchNext]_vars

\* the keys of __ZENITH_MANIFEST__.chunks: route paths, each at most once
ChunkKeys == {rs \in RouteArrays : \A i, j \in 1..Len(rs) : rs[i].path = rs[j].path => i = j}

\* resolveRoute of the generated module on a manifest and a pathname
GeneratedInit ==
    /\ m_routes \in ChunkKeys
    /\ m_pathname \in Pathnames
    /\ m_result = Null
    /\ m_done = FALSE
    /\ TplIdle /\ RouterIdle /\ RuntimeIdle /\ ManifestIdle /\ HistoryIdle /\ EventsIdle /\ CreateIdle /\ TraverseIdle /\ UrlIdle /\ GuardsIdle /\ ZenIdle /\ PrefetchIdle

CallResolveRoute ==
    /\ ~m_done
    /\ m_result' = tplResolveRoute([i \in 1..Len(m_routes) |-> m_routes[i].path], m_pathname)
    /\ m_done' = TRUE
    /\ UNCHANGED <<m_routes, m_pathname>>
    /\ UNCHANGED <<tvars, vvars, rvars, gvars, hvars, evars, cvars, bvars, uvars, qvars, zvars, pvars>>

GeneratedNext == CallResolveRoute

SpecGenerated == GeneratedInit /\ [][GeneratedNext]_vars

(***************************************************************************)
(* Claims about the generated router module (SpecTemplate)                 *)
(***************************************************************************)
TplEvents(kind) == {i \in DOMAIN t_log : t_log[i].e = kind}
MountsOf(t) == {i \in TplEvents("mount") : t_log[i].tok = t}
TeardownsBy(t) == {i \in TplEvents("teardown") : t_log[i].tok = t}
TeardownsOf(c) == {i \in TplEvents("teardown") : t_log[i].of = c}
NavIdx(t) == CHOOSE i \in TplEvents("nav") : t_log[i].tok = t
Settled(t) == \E i \in TplEvents("settle") : t_log[i].tok = t
SettleIdx(t) == CHOOSE i \in TplEvents("settle") : t_log[i].tok = t
Fulfilled(t) == Settled(t) /\ t_log[SettleIdx(t)].kind \in {"cleanup", "plain"}

\* C1: a page is mounted only by the navigation whose token equals
\* navigationToken at mount time; once all loads have settled (the latest one
\* with a page module that mounts), the mounted page and activeCleanup belong
\* to the most recently issued navigation that resolved to a route.
C1_LatestNavigationWins ==
    /\ \A i \in TplEvents("mount") : t_log[i].tok = t_log[i].cur
    /\ activeCleanup # 0 => activeCleanup = navigationToken /\ t_page = navigationToken
    /\ (t_pending = {} /\ navigationToken > 0 /\ Fulfilled(navigationToken)) =>
          /\ t_page = navigationToken
          /\ \E i \in MountsOf(navigationToken) :
                t_log[i].route = t_log[NavIdx(navigationToken)].route
          /\ activeCleanup =
                IF t_log[SettleIdx(navigationToken)].kind = "cleanup"
                THEN navigationToken ELSE 0

\* a superseded load settled after the latest navigation had mounted its page
C1_Witness ==
    /\ t_pending = {} /\ navigationToken >= 2
    /\ t_page = navigationToken /\ activeCleanup = navigationToken
    /\ \E t \in 1..(navigationToken - 1) :
          /\ Settled(t) /\ t_log[SettleIdx(t)].kind = "cleanup"
          /\ \E i \in MountsOf(navigationToken) : i < SettleIdx(t)

\* navigation t + 1 was issued while the load of navigation t was pending
SupersededWhilePending(t) ==
    /\ t >= 1 /\ t + 1 <= navigationToken
    /\ Settled(t) => SettleIdx(t) > NavIdx(t + 1)

\* C2: with a page mounted, a navigation to /a followed at once by one to /b
\* gives exactly one mount, for /b, and exactly one teardown call in total,
\* whichever load completes first; the load of /a causes no mount and no
\* teardown.
C2_SupersededNavigationIsSilent ==
    \A t \in 1..navigationToken :
        SupersededWhilePending(t) =>
            /\ MountsOf(t) = {}
            /\ TeardownsBy(t + 1) = {}
            /\ Cardinality(TeardownsBy(t)) = (IF t_log[NavIdx(t)].had # 0 THEN 1 ELSE 0)
            /\ \A i \in TeardownsBy(t) : i = NavIdx(t) + 1
            /\ Cardinality(MountsOf(t + 1)) <= 1
            /\ (navigationToken = t + 1 /\ Fulfilled(t + 1)) =>
                  \E i \in MountsOf(t + 1) :
                      t_log[i].route = t_log[NavIdx(t + 1)].route

\* /a then /b with a page mounted; the load of /b settled first, then that of /a
C2_Witness ==
    \E t \in 1..navigationToken :
        /\ SupersededWhilePending(t)
        /\ t_log[NavIdx(t)].had # 0
        /\ t_log[NavIdx(t)].route = P_a /\ t_log[NavIdx(t + 1)].route = P_b
        /\ Settled(t) /\ Settled(t + 1) /\ SettleIdx(t + 1) < SettleIdx(t)
        /\ t_log[SettleIdx(t)].kind = "cleanup"
        /\ Cardinality(MountsOf(t + 1)) = 1
        /\ Cardinality(TeardownsBy(t)) = 1

\* mounts that returned a teardown function
ReturnedCleanups == {i \in TplEvents("mount") : t_log[i].fn}

\* C5: every teardown function returned by a mount is invoked exactly once
\* and before the next mount; none is invoked twice and none is dropped
\* un-invoked when a later page is mounted.
C5_TeardownExactlyOnce ==
    /\ \A k \in TplEvents("teardown") :
          \E j \in ReturnedCleanups : j < k /\ t_log[j].tok = t_log[k].of
    /\ \A j \in ReturnedCleanups :
          /\ Cardinality(TeardownsOf(t_log[j].tok)) <= 1
          /\ (TeardownsOf(t_log[j].tok) = {}) <=> (activeCleanup = t_log[j].tok)
          /\ \A i \in TplEvents("mount") :
                j < i => \E k \in TeardownsOf(t_log[j].tok) : j < k /\ k < i

\* two pages were mounted and the first one's teardown function was invoked
C5_Witness ==
    \E j, i \in ReturnedCleanups :
        /\ j < i
        /\ Cardinality(TeardownsOf(t_log[j].tok)) = 1
        /\ activeCleanup = t_log[i].tok

(***************************************************************************)
(* Claims about createRouter (SpecRouter)                                  *)
(***************************************************************************)
VEvents(kind) == {i \in DOMAIN v_log : v_log[i].e = kind}
VOf(kind, id) == {i \in VEvents(kind) : v_log[i].id = id}
IsRunning(id) == \E p \in v_running : p.id = id
\* the load of call id resolved and the rest of _resolve has run
LoadResolved(id) == ~IsRunning(id) /\ VOf("reject", id) = {} /\ VOf("load", id) # {}
\* the load of call id had not settled when the call logged at index j was made
PendingAt(id, j) ==
    /\ VOf("load", id) # {}
    /\ \A k \in VOf("event", id) \cup VOf("reject", id) : k > j
CallsIn(log, r) == SelectSeq(log, LAMBDA x : x.r = r)
RunningOf(running, r) == {p \in running : p.r = r}
OpStep(op) == v_ops' = v_ops + 1 /\ v_last'.op = op
OpStepOn(op, r) == OpStep(op) /\ v_last'.r = r

\* C3: on a started router with a page mounted, navigate('/a') then
\* navigate('/b') without awaiting the first gives exactly one mount call
\* (for /b's module), exactly one cleanup call and no route-change event for
\* /a, in every order in which the two loads complete.
C3_OnlyLatestNavigationMounts ==
    \A i, j \in VEvents("resolve") :
        LET a == v_log[i]
            b == v_log[j]
        IN  ( /\ i < j /\ a.r = b.r
              /\ a.origin = "navigate" /\ b.origin = "navigate"
              /\ a.path = P_a /\ b.path = P_b
              /\ a.hadMounted /\ mountFn[a.r] /\ cleanupFn[a.r]
              /\ PendingAt(a.id, j)
              /\ LoadResolved(a.id) /\ LoadResolved(b.id) )
            => /\ VOf("mount", a.id) = {}
               /\ Cardinality(VOf("mount", b.id)) = 1
               /\ Cardinality(VOf("cleanup", a.id) \cup VOf("cleanup", b.id)) = 1
               /\ VOf("event", a.id) = {}

Unmatched(path) == V0Match[path] = Null

\* C6: when a started router resolves a path that matches no route (from
\* navigate, popstate or start), exactly one event {path, matched: false} is
\* dispatched, neither cleanup nor load nor mount is called, the mounted
\* content is left as it was, and the call completes without throwing.
C6_UnmatchedState ==
    \A i \in VEvents("resolve") :
        Unmatched(v_log[i].path) =>
            LET id == v_log[i].id
            IN  /\ VOf("event", id) = {i + 1}
                /\ v_log[i + 1].path = v_log[i].path
                /\ v_log[i + 1].matched = FALSE
                /\ v_log[i + 1].r = v_log[i].r
                /\ VOf("cleanup", id) = {} /\ VOf("load", id) = {}
                /\ VOf("mount", id) = {} /\ VOf("reject", id) = {}
                /\ ~IsRunning(id)

C6_UnmatchedStep ==
    \A i \in VEvents("resolve")' :
        (i > Len(v_log) /\ Unmatched(v_log'[i].path)) =>
            /\ v_content'[v_log'[i].r] = v_content[v_log'[i].r]
            /\ _hasMounted'[v_log'[i].r] = _hasMounted[v_log'[i].r]
            /\ _started[v_log'[i].r] \/ v_log'[i].origin = "start"

C7_LifecycleOrder ==
    \A i \in VEvents("resolve") :
        ~Unmatched(v_log[i].path) =>
            LET id == v_log[i].id
                r == v_log[i].r
                res == V0Match[v_log[i].path]
                C == VOf("cleanup", id)
                L == VOf("load", id)
                M == VOf("mount", id)
                E == VOf("event", id)
            IN  /\ Cardinality(C) <= 1 /\ Cardinality(L) = 1
                /\ Cardinality(M) <= 1 /\ Cardinality(E) <= 1
                /\ (C # {}) <=> (v_log[i].hadMounted /\ cleanupFn[r])
                /\ \A c \in C, l \in L : i < c /\ c < l
                /\ \A l \in L :
                      /\ i < l
                      /\ v_log[l].route = res.route.id
                      /\ v_log[l].params = res.params
                      /\ \A m \in M : l < m /\ v_log[m].module = v_log[l].route
                      /\ \A e \in E : l < e
                /\ \A e \in E :
                      /\ mountFn[r] => \E m \in M : m < e
                      /\ v_log[e].path = v_log[i].path
                      /\ v_log[e].params = res.params
                      /\ v_log[e].matched
                /\ LoadResolved(id) => Cardinality(E) = 1 /\ (mountFn[r] => Cardinality(M) = 1)

\* a navigation with all four calls: cleanup, load, mount, event
C7_Witness ==
    \E i \in VEvents("resolve") :
        /\ VOf("cleanup", v_log[i].id) # {} /\ VOf("mount", v_log[i].id) # {}
        /\ VOf("event", v_log[i].id) # {}
        /\ v_log[i].path = P_b

NoneStarted == \A r \in Routers : ~_started[r]

C8_NotStartedState ==
    /\ \A r \in Routers :
          ~_started[r] => _resolveNavigation # r /\ r \notin SeqRange(_listeners)
    /\ v_last.op = "destroy" => _resolveNavigation = "null"
    /\ NoneStarted => _resolveNavigation = "null" /\ ~v_handler

C8_NotStartedStep ==
    /\ (OpStep("navigate") \/ OpStep("popstate")) =>
          \A r \in Routers :
              ~_started[r] =>
                  /\ CallsIn(v_log', r) = CallsIn(v_log, r)
                  /\ RunningOf(v_running', r) = RunningOf(v_running, r)
                  /\ v_content'[r] = v_content[r]
    /\ (OpStep("navigate") /\ (v_last.op = "destroy" \/ NoneStarted)) =>
          /\ UNCHANGED <<vprog, v_log, v_ids>>
          /\ v_history' = pushState(v_history, v_last'.extra)
    /\ (OpStep("popstate") /\ NoneStarted) => UNCHANGED <<vprog, v_log, v_ids>>

\* C8: after destroy() of a router, and before any start(), navigate(path)
\* invokes no load, mount or cleanup, dispatches no event and changes no
\* mounted content; it only pushes the history entry. A popstate event after
\* destroy() triggers no resolution.
C8_DestroyedRouterIsInert == []C8_NotStartedState /\ [][C8_NotStartedStep]_vars

\* navigate() right after the destroy() of a router that had mounted a page
C8_Witness ==
    /\ v_last.op = "navigate" /\ v_last.prev = "destroy"
    /\ \E r \in Routers : _hasMounted[r] /\ ~_started[r]
    /\ Len(v_history.stack) > 1

C9_IdempotentStep ==
    \A r \in Routers :
        /\ (OpStepOn("start", r) /\ _started[r]) =>
              UNCHANGED <<vprog, v_history, v_log, v_ids>>
        /\ (OpStepOn("destroy", r) /\ v_last.op = "destroy" /\ v_last.r = r) =>
              UNCHANGED <<vprog, v_history, v_log, v_ids>>

\* C9: a second start() on a started router attaches no further popstate
\* listener and performs no further resolve, load or mount; a second
\* destroy() changes nothing.
C9_StartDestroyIdempotent == [][C9_IdempotentStep]_vars

\* start() was called on a router that was already started
C9_Witness ==
    /\ v_last.op = "start" /\ v_last.started
    /\ _started[v_last.r] /\ Len(_listeners) = 1

\* destroy() was called twice in a row on the same router
C9_WitnessDestroy ==
    /\ v_last.op = "destroy" /\ v_last.prev = "destroy" /\ v_last.prevR = v_last.r

(***************************************************************************)
(* Claims about the runtime router (SpecRuntime)                           *)
(***************************************************************************)
RtIdx(ops) == {i \in 1..Len(rt_log) : rt_log[i].op \in ops}

\* before log position j, a navigate call newer than navigation id was made
SupersededBefore(id, j) ==
    \E n \in RtIdx({"nav"}) :
        n < j /\ rt_log[n].origin = "navigate" /\ rt_log[n].id > id

\* navigation id called its route's load
CalledLoad(id) == \E n \in RtIdx({"load"}) : rt_log[n].id = id

\* the resolveAndRender call made last
LatestNav ==
    LET navs == RtIdx({"nav"})
    IN rt_log[CHOOSE n \in navs : \A m \in navs : rt_log[m].id <= rt_log[n].id]

\* C4: a navigation of the runtime router that loads its page and that a
\* newer navigate call has superseded renders nothing, writes no history
\* entry and notifies no listener afterwards; and once nothing is pending,
\* the rendered page,
\* getRoute().path and the history URL are those of the navigate call made
\* last (when that call found a route and its page was rendered).
C4_SupersededNavigationIsDropped ==
    /\ \A j \in RtIdx({"render", "history", "notify"}) :
           CalledLoad(rt_log[j].id) => ~SupersededBefore(rt_log[j].id, j)
    /\ ( /\ RtIdx({"nav"}) # {}
         /\ rt_loading = {} /\ rt_micro = <<>>
         /\ LatestNav.origin = "navigate"
         /\ routerOutlet
         /\ \E j \in RtIdx({"render"}) :
                rt_log[j].id = LatestNav.id /\ rt_log[j].html # HtmlUndefined )
       => /\ rt_html = rtResolveRoute(routeManifest, LatestNav.path).record.id
          /\ currentRoute.path = LatestNav.path
          /\ urlPathname(rt_history.stack[rt_history.pos]) = LatestNav.path

(***************************************************************************)
(* C10                                                                     *)
(***************************************************************************)
MatchingIndexes(routes, pathname) ==
    {i \in 1..Len(routes) : matchPath(routes[i].path, pathname).matched}

usersNew == <<"/","u","s","e","r","s","/","n","e","w">>
usersId == <<"/","u","s","e","r","s","/",":","i","d">>
users42 == <<"/","u","s","e","r","s","/","4","2">>
staticRoute == [path |-> usersNew, id |-> "static"]
dynamicRoute == [path |-> usersId, id |-> "dynamic"]

\* C10: matchRoute returns the route of smallest index whose matchPath
\* succeeds, with that route's params, and null when no route matches; with
\* [/users/new, /users/:id] the path /users/new resolves to the static route
\* with empty params and /users/42 to the dynamic route with id = '42'; with
\* the order reversed /users/new resolves to /users/:id with id = 'new'.
C10_FirstMatchWins ==
    /\ m_done =>
          LET idxs == MatchingIndexes(m_routes, m_pathname)
          IN  IF idxs = {} THEN m_result = Null
              ELSE LET k == CHOOSE i \in idxs : \A j \in idxs : i <= j
                   IN  /\ m_result # Null
                       /\ m_result.route = m_routes[k]
                       /\ m_result.params = matchPath(m_routes[k].path, m_pathname).params
    /\ m_done =>
          /\ matchRoute(<<staticRoute, dynamicRoute>>, usersNew)
                = [route |-> staticRoute, params |-> EmptyParams]
          /\ matchRoute(<<staticRoute, dynamicRoute>>, users42)
                = [route |-> dynamicRoute, params |-> (<<"i","d">> :> <<"4","2">>)]
          /\ matchRoute(<<dynamicRoute, staticRoute>>, usersNew)
                = [route |-> dynamicRoute, params |-> (<<"i","d">> :> <<"n","e","w">>)]

\* two routes match and the first one was returned
C10_Witness ==
    /\ m_done
    /\ Cardinality(MatchingIndexes(m_routes, m_pathname)) >= 2
    /\ m_result # Null
    /\ m_result.route.id = 1
    /\ m_result.params # EmptyParams

\* no route matches and null was returned
C10_WitnessNull ==
    /\ m_done
    /\ Len(m_routes) >= 1
    /\ m_result = Null

(***************************************************************************)
(* C11                                                                     *)
(***************************************************************************)
\* the parameter names of a route path, one per ':' segment, in order
ParamNamesOf(routePath) ==
    LET dyn == SelectSeq(_splitPath(routePath), startsWithColon)
    IN [i \in 1..Len(dyn) |-> Tail(dyn[i])]

HasRepeatedParam(routePath) ==
    LET names == ParamNamesOf(routePath)
    IN \E i, j \in 1..Len(names) : i < j /\ names[i] = names[j]

\* C11: a route path that names the same parameter twice is matched by
\* neither matchPath nor matchRoute, whatever the pathname, and matchPath
\* then returns empty params.
C11_RepeatedParamNeverMatches ==
    /\ \A i \in 1..Len(m_routes) :
           HasRepeatedParam(m_routes[i].path)
               => matchPath(m_routes[i].path, m_pathname) = NoMatch
    /\ (m_done /\ m_result # Null) => ~HasRepeatedParam(m_result.route.path)

\* matchRoute has run on a route with a repeated name and a pathname with as
\* many segments as the route
C11_Witness ==
    /\ m_done
    /\ \E i \in 1..Len(m_routes) :
           /\ HasRepeatedParam(m_routes[i].path)
           /\ Len(_splitPath(m_routes[i].path)) = Len(_splitPath(m_pathname))
           /\ \A j \in 1..(i - 1) : ~matchPath(m_routes[j].path, m_pathname).matched

(***************************************************************************)
(* C12                                                                     *)
(***************************************************************************)
\* the structural segment walk: static segments compared literally, a
\* dynamic segment taking one token, a catch-all the one or more tokens that
\* are left and an optional catch-all the zero or more that are left
RECURSIVE walkLoop(_, _, _, _)
walkLoop(segments, tokens, i, params) ==
    IF i > Len(segments)
    THEN IF i > Len(tokens) THEN [params |-> params] ELSE Null
    ELSE LET segment == segments[i]
             left == SubSeq(tokens, i, Len(tokens))
         IN IF segment.segmentType = "Static"
            THEN IF i <= Len(tokens) /\ tokens[i] = segment.raw
                 THEN walkLoop(segments, tokens, i + 1, params)
                 ELSE Null
            ELSE IF segment.segmentType = "Dynamic"
            THEN IF i <= Len(tokens)
                 THEN walkLoop(segments, tokens, i + 1,
                               (segment.paramName :> tokens[i]) @@ params)
                 ELSE Null
            ELSE IF segment.segmentType = "CatchAll" /\ Len(left) = 0 THEN Null
            ELSE [params |-> (segment.paramName :> jsJoin(left)) @@ params]

structuralWalk(routePath, pathname) ==
    walkLoop(parseRouteSegments(routePath), _splitPath(pathname), 1, EmptyParams)

\* resolveRoute on the manifest of the one route path
regexResolve(routePath, pathname) ==
    rtResolveRoute(generateRouteManifest(<<routePath>>), pathname)

\* the parameters that have a non-empty value
NonEmptyParams(params) ==
    [name \in {n \in DOMAIN params : params[n] # <<>>} |-> params[name]]

SameOutcome(routePath, pathname) ==
    LET r == regexResolve(routePath, pathname)
        w == structuralWalk(routePath, pathname)
    IN /\ (r # Null) <=> (w # Null)
       /\ (r # Null /\ w # Null)
             => NonEmptyParams(r.params) = NonEmptyParams(w.params)

\* C12: for every route path and every pathname the compiled-regex resolver
\* reports a match exactly when the structural segment walk accepts, and the
\* two produce the same parameter values.
C12_RegexEqualsStructuralWalk ==
    g_stage = "resolved"
        => \A i \in 1..Len(g_paths) : SameOutcome(g_paths[i], g_pathname)

(***************************************************************************)
(* C13, C14                                                                *)
(***************************************************************************)
StaticCount(routePath) == Len(SelectSeq(parseRouteSegments(routePath), IsStatic))

SegmentCount(routePath) == Len(parseRouteSegments(routePath))

\* Static above Dynamic above CatchAll above OptionalCatchAll
KindRank(segmentType) ==
    IF segmentType = "Static" THEN 3
    ELSE IF segmentType = "Dynamic" THEN 2
    ELSE IF segmentType = "CatchAll" THEN 1
    ELSE 0

\* the two route paths have the same segments but for position k, where p
\* has the segment of the higher kind
OutranksAt(p, q, k) ==
    LET ps == parseRouteSegments(p)
        qs == parseRouteSegments(q)
    IN /\ Len(ps) = Len(qs)
       /\ k \in 1..Len(ps)
       /\ \A i \in 1..Len(ps) : i # k => ps[i].segmentType = qs[i].segmentType
       /\ KindRank(ps[k].segmentType) > KindRank(qs[k].segmentType)

\* C13: of two routes with the same number of segments the one with more
\* Static segments has the strictly higher score and comes first in the
\* manifest, and a route whose one differing segment is of a higher kind
\* (Static, Dynamic, CatchAll, OptionalCatchAll in that order) has the
\* strictly higher score.
C13_MoreStaticRanksHigher ==
    g_stage = "generated" =>
        \A i, j \in 1..Len(g_manifest) :
            LET p == g_manifest[i]
                q == g_manifest[j]
            IN /\ ( /\ SegmentCount(p.path) = SegmentCount(q.path)
                    /\ StaticCount(p.path) > StaticCount(q.path) )
                  => (p.score > q.score /\ i < j)
               /\ (\E k \in 1..SegmentCount(p.path) : OutranksAt(p.path, q.path, k))
                  => (p.score > q.score /\ i < j)

\* C14: the manifest generateRouteManifest returns holds every discovered
\* page once, ordered by score descending, and pages of equal score stay in
\* discovery order whatever their path strings are.
C14_StableRanking ==
    g_stage = "generated" =>
        /\ Len(g_manifest) = Len(g_paths)
        /\ \A i \in 1..Len(g_paths) :
              \E k \in 1..Len(g_manifest) :
                  g_manifest[k] = generateRouteDefinition(g_paths[i], i)
        /\ \A i, j \in 1..Len(g_manifest) :
              i < j => \/ g_manifest[i].score > g_manifest[j].score
                       \/ /\ g_manifest[i].score = g_manifest[j].score
                          /\ g_manifest[i].index < g_manifest[j].index

\* two pages of equal score and different paths have been ranked
C14_Witness ==
    /\ g_stage = "generated"
    /\ \E i, j \in 1..Len(g_manifest) :
          /\ i < j
          /\ g_manifest[i].score = g_manifest[j].score
          /\ g_manifest[i].path # g_manifest[j].path

(***************************************************************************)
(* Claims about history.js (SpecHistory)                                   *)
(***************************************************************************)
HistIdx(ops) == {k \in 1..Len(h_log) : h_log[k].op \in ops}

\* the callbacks subscribed after the first k logged calls, oldest first
RECURSIVE SubscribedAfter(_)
SubscribedAfter(k) ==
    IF k = 0 THEN <<>>
    ELSE LET before == SubscribedAfter(k - 1)
             e == h_log[k]
         IN IF e.op = "listen" /\ e.cb \notin SeqRange(before)
            THEN Append(before, e.cb)
            ELSE IF e.op = "unlisten"
            THEN SelectSeq(before, LAMBDA c : c # e.cb)
            ELSE before

\* is the handler attached after the first k logged calls
RECURSIVE AttachedAfter(_)
AttachedAfter(k) ==
    IF k = 0 THEN FALSE
    ELSE IF h_log[k].op = "addEventListener" THEN TRUE
    ELSE IF h_log[k].op = "removeEventListener" THEN FALSE
    ELSE AttachedAfter(k - 1)

\* C15: after any listen and unlisten calls, repeated unlisten calls
\* included, the popstate handler is attached exactly when a callback is
\* subscribed; it is never added while attached, and it is removed by the
\* unlisten call that leaves no subscriber.
C15_OneSharedPopstateHandler ==
    /\ v_handler <=> (Len(_listeners) > 0)
    /\ _listening <=> v_handler
    /\ _listeners = SubscribedAfter(Len(h_log))
    /\ \A k \in HistIdx({"addEventListener"}) : ~AttachedAfter(k - 1)
    /\ \A k \in HistIdx({"unlisten"}) :
          (AttachedAfter(k - 1) /\ SubscribedAfter(k) = <<>>)
              => (k < Len(h_log) /\ h_log[k + 1].op = "removeEventListener")
    /\ \A k \in HistIdx({"removeEventListener"}) :
          h_log[k - 1].op = "unlisten" /\ SubscribedAfter(k) = <<>>

\* one callback's unlisten function has been called twice while another
\* callback stays subscribed
C15_Witness ==
    /\ \E j, k \in HistIdx({"unlisten"}) :
          /\ j < k
          /\ h_log[j].cb = h_log[k].cb
          /\ \A i \in j..k : h_log[i].op # "listen"
          /\ Len(SubscribedAfter(k)) > 0
    /\ v_handler

\* the handler has been removed by the last unlisten and attached again
C15_WitnessReattach ==
    \E j \in HistIdx({"removeEventListener"}), k \in HistIdx({"addEventListener"}) : j < k

\* C16: a popstate event calls every callback subscribed at that moment
\* once, within the dispatch, in registration order and with the pathname
\* the location then has; a callback whose unlisten has been called is not
\* called by a later event.
C16_DispatchState ==
    /\ \A k \in HistIdx({"popstate"}) :
          LET subs == SubscribedAfter(k)
          IN /\ k + Len(subs) <= Len(h_log)
             /\ \A i \in 1..Len(subs) :
                   h_log[k + i] = [op |-> "callback", cb |-> subs[i],
                                   path |-> h_log[k].path]
             /\ (k + Len(subs) < Len(h_log))
                   => h_log[k + Len(subs) + 1].op # "callback"
    /\ \A j \in HistIdx({"callback"}) :
          /\ h_log[j].cb \in SeqRange(SubscribedAfter(j))
          /\ \E k \in HistIdx({"popstate"}) :
                k < j /\ \A i \in (k + 1)..j : h_log[i].op = "callback"

\* the calls a popstate event adds carry the pathname of the location the
\* browser has just moved to
C16_DispatchStep ==
    (Len(h_log') > Len(h_log) /\ h_log'[Len(h_log) + 1].op = "popstate")
        => \A i \in (Len(h_log) + 1)..Len(h_log') :
               h_log'[i].path = current(v_history')

C16_WitnessUnlistened ==
    \E j \in HistIdx({"unlisten"}), k \in HistIdx({"popstate"}) :
        /\ j < k
        /\ h_log[j].cb \notin SeqRange(SubscribedAfter(k))
        /\ Len(SubscribedAfter(k)) = 1

(***************************************************************************)
(* Claims about the route-change subscribers                               *)
(***************************************************************************)
EvIdx == 1..Len(e_log)

\* the subscribers after the first k logged calls, from the calls alone
RECURSIVE SubscribersAfter(_)
SubscribersAfter(k) ==
    IF k = 0 THEN {}
    ELSE LET before == SubscribersAfter(k - 1)
             entry == e_log[k]
         IN CASE entry.op = "subscribe" -> before \cup {entry.cb}
              [] entry.op = "unsubscribe" -> before \ {entry.cb}
              [] entry.op = "clear" -> {}
              [] OTHER -> before

\* every function onRouteChange has returned has been called since
EveryUnsubscribeCalled ==
    \A i \in EvIdx :
        e_log[i].op = "subscribe" =>
            \E j \in EvIdx : j > i /\ e_log[j].op = "unsubscribe" /\ e_log[j].cb = e_log[i].cb

\* C17: the subscriber set is exactly what the onRouteChange, unsubscribe
\* and _clearSubscribers calls made of it, whatever number of dispatches
\* (route swaps) ran in between; it holds each callback once; the count is
\* zero once every returned unsubscribe function has been called; and a
\* callback is only ever called while it is subscribed.
C17_SubscribersChangeOnlyByCalls ==
    /\ SeqRange(_subscribers) = SubscribersAfter(Len(e_log))
    /\ _getSubscriberCount = Cardinality(SeqRange(_subscribers))
    /\ EveryUnsubscribeCalled => _getSubscriberCount = 0
    /\ \A i \in EvIdx :
           e_log[i].op = "call" => e_log[i].cb \in SubscribersAfter(i - 1)

\* two callbacks subscribed, both unsubscribed, and a dispatch after that
C17_Witness ==
    /\ Cardinality(e_unsubs) >= 2
    /\ EveryUnsubscribeCalled
    /\ _getSubscriberCount = 0
    /\ e_log # <<>>
    /\ e_log[Len(e_log)].op = "dispatch"

\* a dispatch that called a subscriber and left the set as it was
C17_WitnessRouteSwap ==
    /\ _getSubscriberCount >= 1
    /\ \E i \in EvIdx : e_log[i].op = "call"
    /\ \A i \in EvIdx : e_log[i].op \notin {"unsubscribe", "clear"}

\* the log entries of dispatch n
DispatchEntries(n) == {i \in EvIdx : e_log[i].n = n /\ e_log[i].by # "app"}
DispatchStart(n) == CHOOSE i \in EvIdx : e_log[i].op = "dispatch" /\ e_log[i].n = n
DispatchEnd(n) == CHOOSE i \in EvIdx : e_log[i].n = n /\ \A j \in EvIdx : e_log[j].n = n => j <= i
Dispatches == {e_log[i].n : i \in {j \in EvIdx : e_log[j].op = "dispatch"}}
CallsOf(n, cb) == {i \in DispatchEntries(n) : e_log[i].op = "call" /\ e_log[i].cb = cb}
Threw(n) == \E i \in DispatchEntries(n) : e_log[i].op = "thrown"
UnsubscribedDuring(n) == {i \in DispatchEntries(n) : e_log[i].op = "unsubscribe"}
StaysSubscribed(n) == SubscribersAfter(DispatchStart(n)) \cap SubscribersAfter(DispatchEnd(n))

\* C18: when a callback unsubscribes a subscriber during a dispatch, the
\* dispatch throws only if a callback itself throws, the removed subscriber
\* is not called after its removal in that dispatch, and, the dispatch
\* running to its end, every subscriber that stays subscribed is called
\* exactly once.
C18_UnsubscribeDuringDispatch ==
    \A n \in Dispatches :
        UnsubscribedDuring(n) # {} =>
            /\ \A i \in DispatchEntries(n) :
                   e_log[i].op = "thrown" => e_behaviour[e_log[i].cb] = Throws
            /\ \A u \in UnsubscribedDuring(n) :
                   \A i \in CallsOf(n, e_log[u].cb) : i < u
            /\ ~Threw(n) =>
                   \A cb \in StaysSubscribed(n) : Cardinality(CallsOf(n, cb)) = 1

\* a subscriber removed before its turn is skipped and a later one is called
C18_Witness ==
    \E n \in Dispatches :
        \E u \in UnsubscribedDuring(n) :
            /\ e_log[u].cb \in SubscribersAfter(DispatchStart(n))
            /\ e_log[u].cb # e_log[u].by
            /\ CallsOf(n, e_log[u].cb) = {}
            /\ \E i \in DispatchEntries(n) : i > u /\ e_log[i].op = "call"

\* a subscriber removed after its turn had been called once already
C18_WitnessVisited ==
    \E n \in Dispatches :
        \E u \in UnsubscribedDuring(n) :
            /\ e_log[u].cb # e_log[u].by
            /\ Cardinality(CallsOf(n, e_log[u].cb)) = 1

\* C19: in a dispatch in which a callback throws, every other subscriber
\* that stays subscribed is still called.
C19_ThrowingListenerStopsNobody ==
    \A n \in Dispatches :
        Threw(n) => \A cb \in StaysSubscribed(n) : CallsOf(n, cb) # {}

(***************************************************************************)
(* Claims about navigation failures in the generated router module         *)
(***************************************************************************)
\* the navigate() promise of log entry i rejected: import() rejected, or the
\* mount function was called and threw
NavigationFailed(i) ==
    /\ t_log[i].e = "settle"
    /\ \/ t_log[i].kind = "reject"
       \/ /\ t_log[i].kind = "throw"
          /\ i < Len(t_log)
          /\ t_log[i + 1].e = "mount"
          /\ t_log[i + 1].tok = t_log[i].tok

\* C20: once a navigation's load or mount has failed, whichever handler
\* started it, location.assign has taken the document away, so no state
\* has a failed navigation and the router still running.
C20_FailureFallsBackHard ==
    \A i \in 1..Len(t_log) : NavigationFailed(i) => ~t_alive

(***************************************************************************)
(* Claims about createRouter's validation (SpecCreate)                     *)
(***************************************************************************)
ValidConfig == c_container = "element" /\ c_routes = "array"

\* C21: createRouter throws exactly when the container is no HTMLElement or
\* routes is no non-empty array; after the throw there is no router, so no
\* popstate listener is attached, no navigation resolver is installed and
\* nothing is resolved, loaded or mounted, whatever navigate() calls and
\* popstate events follow.
C21_InvalidConfigThrows ==
    /\ c_router = "thrown" => ~ValidConfig
    /\ c_router = "returned" => ValidConfig
    /\ c_router = "thrown" =>
          /\ ~v_handler /\ ~_listening /\ _listeners = <<>>
          /\ _resolveNavigation = "null"
          /\ v_running = {}
          /\ v_log = <<>>
          /\ \A r \in Routers : ~_started[r] /\ ~_hasMounted[r] /\ v_content[r] = 0

\* an empty routes array made createRouter throw, and a navigate() call and a
\* popstate event came after it
C21_Witness ==
    /\ c_router = "thrown"
    /\ c_container = "element" /\ c_routes = "empty"
    /\ v_last.op = "popstate" /\ v_last.prev = "navigate"

\* a non-element container made createRouter throw
C21_WitnessContainer ==
    /\ c_router = "thrown"
    /\ c_container = "object" /\ c_routes = "array"

(***************************************************************************)
(* Claims about back, forward and go (SpecTraverse)                        *)
(***************************************************************************)
\* the origin of the resolveAndRender call with the given id
OriginOf(id) == rt_log[CHOOSE n \in RtIdx({"nav"}) : rt_log[n].id = id].origin

\* no history entry is ever written for a navigation handlePopState started
C22_PopstateWritesNoHistory ==
    \A i \in RtIdx({"history"}) : OriginOf(rt_log[i].id) = "navigate"

\* a call of back, forward or go changes nothing of the router: it resolves
\* no route and leaves the session history and the current route alone
C22_DelegationStep ==
    Len(b_pending') > Len(b_pending) => UNCHANGED rvars

\* a popstate the browser delivers is resolved from the location the browser
\* moved to, and the stack of entries stays as it was
C22_PopstateStep ==
    (Len(b_pending') < Len(b_pending) /\ rt_ids' > rt_ids) =>
        /\ rt_history'.stack = rt_history.stack
        /\ rt_history'.pos = rt_history.pos + Head(b_pending)
        /\ Len(rt_log') > Len(rt_log)
        /\ rt_log'[Len(rt_log) + 1].op = "nav"
        /\ rt_log'[Len(rt_log) + 1].origin = "popstate"
        /\ rt_log'[Len(rt_log) + 1].path = urlPathname(rt_history.stack[rt_history'.pos])

\* C22: back(), forward() and go(delta) only delegate to the history and
\* resolve nothing themselves; the navigation arrives through the popstate
\* handler, which resolves the location the browser moved to and neither
\* pushes nor replaces a history entry.
C22_BackForwardGoDelegate ==
    /\ []C22_PopstateWritesNoHistory
    /\ [][C22_DelegationStep /\ C22_PopstateStep]_vars

\* a back() was delivered as a popstate whose navigation has notified
C22_Witness ==
    /\ b_pending = <<>>
    /\ Len(rt_history.stack) >= 2
    /\ rt_history.pos < Len(rt_history.stack)
    /\ \E i \in RtIdx({"notify"}) : OriginOf(rt_log[i].id) = "popstate"

\* a go(2) is waiting for the browser while nothing else has changed
C22_WitnessGo ==
    /\ b_pending # <<>> /\ b_pending[Len(b_pending)] = 2
    /\ rt_inited

(***************************************************************************)
(* Claims about push, replace and current (SpecUrl)                        *)
(***************************************************************************)
\* a path string: absolute, within the origin, without a query
ValidPath(p) ==
    /\ Len(p) >= 1 /\ p[1] = "/"
    /\ ~(Len(p) >= 2 /\ p[2] = "/")
    /\ \A i \in 1..Len(p) : p[i] # "?"

\* C23: current() called after push(path) or replace(path) returns path
\* exactly, for every valid path string.
C23_PushCurrentRoundTrip ==
    (u_read /\ ValidPath(u_path)) => u_current = u_path

(***************************************************************************)
(* Claims about navigationToken (SpecTemplate)                             *)
(***************************************************************************)
\* the step is a start(), a popstate event or a click the router took over:
\* navigate(pathname, push, url) was called in it
NavigateCalled ==
    /\ t_events' = t_events + 1
    /\ ~(/\ Len(t_log') = Len(t_log) + 1
         /\ t_log'[Len(t_log')].e = "click"
         /\ ~t_log'[Len(t_log')].prevented)

C24_TokenStep ==
    /\ navigationToken' >= navigationToken
    /\ NavigateCalled => navigationToken' = navigationToken + 1

\* C24: navigationToken never goes down, and every navigation attempt (a
\* click the router takes over, a popstate event, the initial load) adds
\* exactly one to it, whether or not the path resolves to a route.
C24_TokenCountsAttempts == [][C24_TokenStep]_vars

(***************************************************************************)
(* Claims about the runtime router's notifications (SpecRuntime)           *)
(***************************************************************************)
\* the log entry of the resolveAndRender call with the given id
NavOf(id) == rt_log[CHOOSE n \in RtIdx({"nav"}) : rt_log[n].id = id]

\* the id of the route record the path resolves to, 0 if there is none
MatchedFor(path) ==
    LET resolved == rtResolveRoute(RtManifest, path)
    IN IF resolved = Null THEN 0 ELSE resolved.record.id

\* the notification before log position i, Null if i is the first
NotifyBefore(i) ==
    LET earlier == {j \in RtIdx({"notify"}) : j < i}
    IN IF earlier = {} THEN Null
       ELSE rt_log[CHOOSE j \in earlier : \A m \in earlier : m <= j]

\* C25: every notification carries the route state its own navigation
\* produced as newRoute, and as previousRoute the newRoute of the
\* notification before it (the initial route state for the first).
C25_NotificationsChain ==
    \A i \in RtIdx({"notify"}) :
        /\ rt_log[i].route.path = NavOf(rt_log[i].id).path
        /\ rt_log[i].route.matched = MatchedFor(NavOf(rt_log[i].id).path)
        /\ rt_log[i].prev = (IF NotifyBefore(i) = Null THEN InitialRoute
                             ELSE NotifyBefore(i).route)

(***************************************************************************)
(* Claims about matchPath (SpecMatchPath)                                  *)
(***************************************************************************)
\* the non-empty tokens between the slashes of s, in order
RECURSIVE TokensOf(_)
TokensOf(s) ==
    IF s = <<>> THEN <<>>
    ELSE IF Head(s) = "/" THEN TokensOf(Tail(s))
    ELSE LET slash == IndexOf(s, "/", 1)
             end == IF slash = 0 THEN Len(s) ELSE slash - 1
         IN <<SubSeq(s, 1, end)>> \o TokensOf(SubSeq(s, end + 1, Len(s)))

IsParamToken(t) == t # <<>> /\ t[1] = ":"

NameOf(t) == SubSeq(t, 2, Len(t))

\* a letter or underscore, then letters, digits and underscores
IsIdentifier(name) ==
    /\ name # <<>>
    /\ name[1] \notin DigitChars
    /\ \A i \in 1..Len(name) : name[i] \in LowerChars \cup UpperChars \cup DigitChars \cup {"_"}

\* what the claim says matchPath reports for route tokens rt and path tokens pt
ShouldMatch(rt, pt) ==
    /\ Len(rt) = Len(pt)
    /\ \A i \in 1..Len(rt) :
          IF IsParamToken(rt[i])
          THEN /\ IsIdentifier(NameOf(rt[i]))
               /\ \A j \in 1..Len(rt) :
                     (j # i /\ IsParamToken(rt[j])) => NameOf(rt[j]) # NameOf(rt[i])
          ELSE rt[i] = pt[i]

\* the params the claim says a match carries
ParamsOfMatch(rt, pt) ==
    LET at == {i \in 1..Len(rt) : IsParamToken(rt[i])}
    IN [name \in {NameOf(rt[i]) : i \in at} |->
           pt[CHOOSE i \in at : NameOf(rt[i]) = name]]

\* C26: matchPath reports matched exactly when route and pathname have the
\* same number of non-empty tokens, every ':' token has a valid name that no
\* other ':' token has, and every other token equals the pathname's token at
\* its place; params then hold each name with the pathname's token at its
\* place, unchanged, and are empty when there is no match.
C26_MatchPathCharacterised ==
    m_done =>
        \A i \in 1..Len(m_routes) :
            LET rt == TokensOf(m_routes[i].path)
                pt == TokensOf(m_pathname)
                result == matchPath(m_routes[i].path, m_pathname)
            IN /\ result.matched <=> ShouldMatch(rt, pt)
               /\ result.matched => result.params = ParamsOfMatch(rt, pt)
               /\ ~result.matched => result.params = EmptyParams
               /\ Len(m_routes) = 1 =>
                     /\ m_result # Null <=> ShouldMatch(rt, pt)
                     /\ m_result # Null => m_result.params = ParamsOfMatch(rt, pt)

(***************************************************************************)
(* Claims about parseRouteSegments and calculateRouteScore                 *)
(***************************************************************************)
\* the segment the claim gives for a non-empty token
SegmentOfToken(t) ==
    IF t[1] = ":" THEN [segmentType |-> "Dynamic", paramName |-> SubSeq(t, 2, Len(t))]
    ELSE IF t[1] = "*" /\ t[Len(t)] = "?"
    THEN [segmentType |-> "OptionalCatchAll", paramName |-> SubSeq(t, 2, Len(t) - 1)]
    ELSE IF t[1] = "*" THEN [segmentType |-> "CatchAll", paramName |-> SubSeq(t, 2, Len(t))]
    ELSE [segmentType |-> "Static", paramName |-> <<>>]

\* the names of the parameter tokens of a token sequence, in order
RECURSIVE NamesInOrder(_)
NamesInOrder(tokens) ==
    IF tokens = <<>> THEN <<>>
    ELSE (IF Head(tokens)[1] \in {":", "*"}
          THEN <<SegmentOfToken(Head(tokens)).paramName>> ELSE <<>>)
         \o NamesInOrder(Tail(tokens))

\* C27: parseRouteSegments('/') is empty; any other route path gives one
\* segment per non-empty token, in order, of the kind and name the token
\* spells, and extractParamNames gives the parameter names in segment order.
C27_OneSegmentPerToken ==
    g_stage = "generated" =>
        \A r \in 1..Len(g_paths) :
            LET tokens == TokensOf(g_paths[r])
                segments == parseRouteSegments(g_paths[r])
                def == CHOOSE d \in SeqRange(g_manifest) : d.index = r
            IN /\ g_paths[r] = P_root => segments = <<>>
               /\ Len(segments) = Len(tokens)
               /\ \A i \in 1..Len(tokens) :
                     /\ segments[i].segmentType = SegmentOfToken(tokens[i]).segmentType
                     /\ segments[i].paramName = SegmentOfToken(tokens[i]).paramName
                     /\ segments[i].raw = tokens[i]
               /\ extractParamNames(segments) = NamesInOrder(tokens)
               /\ def.paramNames = NamesInOrder(tokens)

\* C28: no route scores above the root route, and after ranking no route of
\* a smaller or larger score stands before the root route unless it scores
\* no more than the root.
C28_RootScoresHighest ==
    g_stage = "generated" =>
        /\ \A i \in 1..Len(g_manifest) :
              g_manifest[i].score <= calculateRouteScore(<<>>)
        /\ \A i, j \in 1..Len(g_manifest) :
              (i < j /\ g_manifest[j].path = P_root)
                  => g_manifest[i].score <= g_manifest[j].score

(***************************************************************************)
(* Claims about the mount and cleanup calls of createRouter                *)
(***************************************************************************)
\* the number of calls of one kind made by instance r so far
CountOf(kind, r) == Cardinality({i \in VEvents(kind) : v_log[i].r = r})

\* C29: for a started instance with a mount and a cleanup function, whenever
\* no navigation of it is in flight, the cleanup calls number one less than
\* the mount calls, and zero while nothing has been mounted.
C29_CleanupsTrailMounts ==
    \A r \in Routers :
        (_started[r] /\ mountFn[r] /\ cleanupFn[r] /\ RunningOf(v_running, r) = {}) =>
            CountOf("cleanup", r) =
                (IF CountOf("mount", r) = 0 THEN 0 ELSE CountOf("mount", r) - 1)

(***************************************************************************)
(* Claims about resolveRoute of the generated module (SpecGenerated)       *)
(***************************************************************************)
\* C30: resolveRoute of the generated module returns the route and the
\* params that matchRoute returns for the manifest's route paths in their
\* declared order, and null where matchRoute returns null; so the first
\* matching route wins and a repeated parameter name never matches.
C30_ResolveRouteIsMatchRoute ==
    m_done =>
        LET expected == matchRoute(m_routes, m_pathname)
        IN  IF expected = Null THEN m_result = Null
            ELSE /\ m_result # Null
                 /\ m_result.route = expected.route.path
                 /\ m_result.params = expected.params

(***************************************************************************)
(* Claims about the guards and hooks of the runtime router (SpecGuards)    *)
(***************************************************************************)
\* the functions of one kind called for navigation id, in call order
CalledFor(log, kind, id) ==
    LET calls == SelectSeq(log, LAMBDA x : x.op = kind /\ x.id = id)
    IN [i \in 1..Len(calls) |-> calls[i].fn]

\* a step in which navigate() starts a navigation
NavigationStarts ==
    /\ rt_ids' = rt_ids + 1
    /\ rt_log'[Len(rt_log) + 1].op = "nav"
    /\ rt_log'[Len(rt_log) + 1].origin = "navigate"

\* the navigations that complete in a step: those notified in it
CompletedIn(log, log2) ==
    {log2[i].id : i \in {j \in (Len(log) + 1)..Len(log2) : log2[j].op = "notify"}}

C31_GuardStep ==
    NavigationStarts =>
        /\ CalledFor(rt_log', "guard", rt_ids') = beforeGuards
        /\ "denies" \in SeqRange(beforeGuards) =>
              UNCHANGED <<currentRoute, rt_history, rt_html>>

C31_HookStep ==
    \A id \in CompletedIn(rt_log, rt_log') :
        CalledFor(rt_log', "hook", id) = afterHooks

\* C31: every navigation of the runtime router first runs the registered
\* guards in registration order, and a guard that returns false leaves the
\* route state, the history and the page as they were; every completed
\* navigation then runs the registered hooks in registration order, a
\* throwing hook included.
C31_GuardsAndHooksRun == [][C31_GuardStep /\ C31_HookStep]_vars

(***************************************************************************)
(* Claims about zenNavigate (SpecZen)                                      *)
(***************************************************************************)
ZenIdx(ops) == {i \in 1..Len(z_log) : z_log[i].op \in ops}
ZenFinished == {"returned", "threw", "resolved", "rejected"}

\* a zenNavigate call that passed the guard before entry i has not finished
InProgressAt(i) ==
    \E j \in ZenIdx({"enter"}) :
        /\ j < i
        /\ \A k \in ZenIdx(ZenFinished) : ~(j < k /\ k < i /\ z_log[k].id = z_log[j].id)

\* C32: a zenNavigate call made while another is in progress returns with
\* no history write and no call of the router; a call made while none is in
\* progress is not turned away; and the flag is set exactly while a call is
\* in progress, however the running call finished.
C32_OneNavigationAtATime ==
    /\ \A i \in ZenIdx({"call"}) :
          IF InProgressAt(i)
          THEN /\ z_log[i + 1].op = "blocked"
               /\ \A j \in ZenIdx({"enter", "router", "history"}) : z_log[j].id # z_log[i].id
          ELSE z_log[i + 1].op = "enter"
    /\ isNavigating <=> InProgressAt(Len(z_log) + 1)
    /\ isNavigating <=> z_waiting # {}

\* a call was turned away during a pending one, the pending one rejected,
\* and a later call went on to the router
C32_Witness ==
    \E b \in ZenIdx({"blocked"}), r \in ZenIdx({"rejected"}), e \in ZenIdx({"router"}) :
        b < r /\ r < e

\* a popstate listener's zenNavigate call was turned away, the outer call
\* returned, and a later call wrote to the history
C32_WitnessReentrant ==
    \E h \in ZenIdx({"history"}), b \in ZenIdx({"blocked"}), h2 \in ZenIdx({"history"}) :
        /\ h < b /\ b < h2
        /\ z_log[b].id = z_log[h].id + 1
        /\ z_log[h2].id > z_log[b].id

(***************************************************************************)
(* Claims about navigate to the current route (SpecSame)                   *)
(***************************************************************************)
\* two query objects hold the same keys with the same values
SameQuery(q1, q2) == SeqRange(q1) = SeqRange(q2)

\* a step of navigate() that goes on to resolveAndRender although the path
\* and the query asked for are those of the current RouteState
RenavigatesSameRoute ==
    /\ NavigationStarts
    /\ currentRoute'.path = currentRoute.path
    /\ SameQuery(currentRoute'.query, currentRoute.query)

\* a step of navigate() that returns at the same-route check
ReturnsAtSameRoute ==
    /\ rt_ids' = rt_ids + 1
    /\ rt_log'[Len(rt_log) + 1].op = "same"

\* C33: navigate(to) for the path and query of the current RouteState goes
\* no further than the check: no history entry, no render, no notification,
\* no change of the RouteState.
C33_Step ==
    /\ ~RenavigatesSameRoute
    /\ ReturnsAtSameRoute =>
          /\ UNCHANGED <<currentRoute, rt_html, rt_history, rt_window, rt_micro>>
          /\ Len(rt_log') = Len(rt_log) + 1

C33_SameRouteIsNoOp == [][C33_Step]_vars

(***************************************************************************)
(* Claims about prefetch (SpecPrefetch)                                    *)
(***************************************************************************)
PfIdx(op) == {i \in 1..Len(p_log) : p_log[i].op = op}

\* C34: whatever paths prefetch is called with and however often, it calls
\* the load of a route at most once; a navigation to a route prefetched
\* before calls no load; and a prefetch of a path that matches no route
\* calls no load and does not record the path.
C34_PrefetchLoadsOnce ==
    /\ \A i, j \in PfIdx("prefetch") :
          (p_log[i].loaded /\ p_log[j].loaded /\ p_log[i].route = p_log[j].route) => i = j
    /\ \A n \in PfIdx("navigate") :
          (\E i \in PfIdx("prefetch") : i < n /\ p_log[i].route # 0
                                        /\ p_log[i].route = p_log[n].route)
              => ~p_log[n].loaded
    /\ \A path \in PfPaths :
          rtResolveRoute(PfManifest, IF path = <<>> THEN P_root ELSE path) = Null
              => ~isPrefetched(path)
    /\ \A i \in PfIdx("prefetch") :
          rtResolveRoute(PfManifest, IF p_log[i].path = <<>> THEN P_root ELSE p_log[i].path) = Null
              => ~p_log[i].loaded

(***************************************************************************)
(* Claims about the click handler of the generated module (SpecTemplate)   *)
(***************************************************************************)
\* a step of the click handler and the link it was given
ClickStep == Len(t_log') > Len(t_log) /\ t_log'[Len(t_log) + 1].e = "click"
Clicked == t_log'[Len(t_log) + 1]

C35_Step ==
    ClickStep =>
        IF resolveRoute(Clicked.path) # Null /\ Clicked.path # locationPathname(t_history)
        THEN /\ Clicked.prevented
             /\ t_history' = pushState(t_history, Clicked.path)
             /\ navigationToken' = navigationToken + 1
             /\ t_log'[Len(t_log) + 2].e = "nav"
             /\ t_log'[Len(t_log) + 2].tok = navigationToken'
        ELSE /\ ~Clicked.prevented
             /\ Len(t_log') = Len(t_log) + 1
             /\ UNCHANGED <<t_history, navigationToken, activeCleanup, t_pending>>

\* C35: a click on a link to a route other than the current location is
\* prevented, pushes one history entry and then starts one navigation that
\* pushes none; a click on a link to no route or to the current location
\* pushes nothing, keeps navigationToken and tears nothing down.
C35_ClickPushesOnce == [][C35_Step]_vars

\* a prevented click has pushed the second entry of the session, and a later
\* click on a link to no route has been let through to the browser
C35_Witness ==
    \E i, j \in TplEvents("click") :
        /\ i < j
        /\ t_log[i].prevented /\ ~t_log[j].prevented
        /\ resolveRoute(t_log[j].path) = Null
        /\ Len(t_history.stack) = 2

\* a click on a link to the current location after a page with a cleanup
\* function was mounted: the page stays
C35_WitnessSameLocation ==
    \E j \in TplEvents("click") :
        /\ ~t_log[j].prevented
        /\ t_log[j].path = locationPathname(t_history)
        /\ activeCleanup # 0

(***************************************************************************)
(* Claims about destroy() and instances of createRouter                    *)
(***************************************************************************)
\* the calls made in a step
NewCalls == {v_log'[i] : i \in (Len(v_log) + 1)..Len(v_log')}

C36_Step ==
    \A call \in NewCalls :
        call.e \in {"mount", "cleanup", "event"} => _started'[call.r]

\* C36: a router that has been destroyed and not started again makes no
\* mount, cleanup or route-change dispatch, even for a load that was pending
\* when destroy() was called.
C36_DestroyedRouterIsSilent == [][C36_Step]_vars

(***************************************************************************)
(* Claims about a rejected load in the runtime router (SpecRuntime)        *)
(***************************************************************************)
\* the navigations that fail in a step
RejectedIn(log, log2) ==
    {log2[i].id : i \in {j \in (Len(log) + 1)..Len(log2) : log2[j].op = "reject"}}

\* the RouteState navigation id found when it was called: that of the call
\* suspended at the load, or the current one when the call fails in one step
RouteBefore(id) ==
    IF \E k \in rt_loading : k.id = id
    THEN (CHOOSE k \in rt_loading : k.id = id).prevRoute
    ELSE currentRoute

C37_Step ==
    \A id \in RejectedIn(rt_log, rt_log') :
        id = rt_ids' =>
            /\ currentRoute' = RouteBefore(id)
            /\ \A i \in RtIdx({"notify", "history"}) : rt_log[i].id # id
            /\ \A i \in (Len(rt_log) + 1)..Len(rt_log') :
                  rt_log'[i].id = id => rt_log'[i].op \notin {"notify", "history", "render"}

\* C37: when the load of the latest navigation rejects, the RouteState is
\* the one the navigation found, and the navigation has written no history
\* entry, rendered no page and notified no listener.
C37_RejectedLoadChangesNothing == [][C37_Step]_vars

\* a step of navigate()
NavigateStep == v_ops' = v_ops + 1 /\ v_last'.op = "navigate"

C38_Step ==
    (NavigateStep /\ \E r \in Routers : _started[r]) =>
        /\ Cardinality({call \in NewCalls : call.e = "resolve"}) = 1
        /\ \A call \in NewCalls : call.e = "resolve" => _started[call.r]

\* C38: with two instances started, whatever is destroyed or started again
\* afterwards, a navigate() call made while an instance is started is
\* resolved by exactly one instance, and that instance is started.
C38_InstancesDoNotInterfere == [][C38_Step]_vars

\* every segment of the route path is Static
AllStatic(routePath) ==
    \A i \in 1..SegmentCount(routePath) :
        parseRouteSegments(routePath)[i].segmentType = "Static"

\* the route alone resolves the pathname
RouteMatches(route, pathname) == rtResolveRoute(<<route>>, pathname) # Null

\* C39: when a route of the ranked manifest made only of static segments
\* matches the pathname, resolveRoute returns a route made only of static
\* segments, never a matching route with a dynamic, catch-all or optional
\* catch-all segment, whatever order the pages were discovered in.
C39_StaticRouteWins ==
    g_stage = "resolved" =>
        \A i \in 1..Len(g_manifest) :
            (AllStatic(g_manifest[i].path) /\ RouteMatches(g_manifest[i], g_pathname))
                => (g_resolved # Null /\ AllStatic(g_resolved.record.path))

====
